---- MODULE Spec2Model ----
(***************************************************************************)
(* A model of tsumugu's `sync` command (src/src/cli/sync.rs): the          *)
(* work-stealing crawler with its active/wake termination protocol, the    *)
(* listing and download tasks, the streaming downloader, and the deletion  *)
(* pass that follows the crawl; with the exclusion engine of               *)
(* src/src/regex_process.rs and the freshness comparator of                *)
(* src/src/compare.rs.                                                     *)
(*                                                                         *)
(* Paths and URLs are sequences of segments.  A regular expression is a    *)
(* sequence of tokens matched against consecutive path segments (an        *)
(* unanchored search, as Regex::is_match does).  Time is counted in        *)
(* seconds, file sizes in chunks of the streamed body.                     *)
(***************************************************************************)
EXTENDS Integers, Sequences, FiniteSets, TLC

VARIABLES
    args,                \* SyncArgs, fixed for the run
    remote,              \* the upstream: url -> index page (absent: the listing fails)
    rfiles,              \* the upstream: url -> what GET/HEAD of a file answers
    fs,                  \* the local filesystem: absolute path -> node
    locked,              \* the local paths that cannot be removed (no permission)
    global,              \* Injector<Task>
    deque,               \* worker -> its FIFO Worker<Task>
    active_cnt,          \* AtomicUsize
    wake,                \* AtomicUsize
    remote_list,         \* Mutex<HashSet<PathBuf>>
    stat_objects,        \* AtomicUsize
    stat_size,           \* AtomicU64
    failure_listing,     \* AtomicBool
    failure_downloading, \* AtomicBool
    pc,                  \* worker -> where the thread is in its loop
    loc,                 \* worker -> the locals of the task it is running
    phase,               \* "crawl" | "reconcile" | "exited"
    walked,              \* reconciler: the entries WalkDir has yielded so far
    del_cnt,             \* reconciler: del_cnt
    exit_code,           \* the process's exit code
    hist,                \* history of what happened, read by the properties only
    probe                \* a single call of a pure function: its inputs and its result

vars == << args, remote, rfiles, fs, locked, global, deque, active_cnt, wake, remote_list,
           stat_objects, stat_size, failure_listing, failure_downloading, pc, loc,
           phase, walked, del_cnt, exit_code, hist, probe >>

(***************************************************************************)
(* Bounds of the model.                                                    *)
(***************************************************************************)
MaxThreads == 2

(***************************************************************************)
(* Sequences and paths.                                                    *)
(***************************************************************************)
IsPrefix(s, t) == Len(s) <= Len(t) /\ SubSeq(t, 1, Len(s)) = s

IsInfix(s, t) == \E i \in 0..(Len(t) - Len(s)) : SubSeq(t, i + 1, i + Len(s)) = s

Range(s) == { s[i] : i \in 1..Len(s) }

Parent(p) == SubSeq(p, 1, Len(p) - 1)

Last(p) == p[Len(p)]

Ancestors(p) == { SubSeq(p, 1, k) : k \in 0..(Len(p) - 1) }

download_dir == << "mirror" >>

upstream == << >>

\* Path::join of the download directory and a relative path
Join(dir, rel) == dir \o rel

\* format!(".tmp.{}", item.name)
TmpName(name) == ".tmp." \o name

(***************************************************************************)
(* The exclusion engine (src/src/regex_process.rs).                        *)
(***************************************************************************)
REGEX_REPLACEMENTS ==
    << << "${DEBIAN_CURRENT}", "(?<distro_ver>buster|bullseye|bookworm)" >>,
       << "${UBUNTU_LTS}", "(?<distro_ver>bionic|focal|jammy)" >> >>

\* the segments an enumerated alternative matches
Alternatives(tok) ==
    CASE tok = "(?<distro_ver>buster|bullseye|bookworm)" -> {"buster", "bullseye", "bookworm"}
      [] tok = "(?<distro_ver>bionic|focal|jammy)" -> {"bionic", "focal", "jammy"}
      [] OTHER -> {}

AnyVersion == "(?<distro_ver>.+)"

ReplaceTok(tok, from, to) == IF tok = from THEN to ELSE tok

RECURSIVE ReplaceAll(_, _, _)
ReplaceAll(s, k, wildcard) ==
    IF k > Len(REGEX_REPLACEMENTS) THEN s
    ELSE ReplaceAll([i \in 1..Len(s) |->
                        ReplaceTok(s[i], REGEX_REPLACEMENTS[k][1],
                                   IF wildcard THEN AnyVersion ELSE REGEX_REPLACEMENTS[k][2])],
                    k + 1, wildcard)

\* ExpandedRegex::from_str
FromStr(s) == [ inner |-> ReplaceAll(s, 1, FALSE), rev_inner |-> ReplaceAll(s, 1, TRUE) ]

TokMatch(tok, seg) ==
    IF Alternatives(tok) # {} THEN seg \in Alternatives(tok)
    ELSE tok = seg

\* toks[j..] matches text from position i on; `.+` takes one segment or more
RECURSIVE MatchAt(_, _, _, _)
MatchAt(toks, text, j, i) ==
    IF j > Len(toks) THEN TRUE
    ELSE IF i > Len(text) THEN FALSE
    ELSE IF toks[j] = AnyVersion
         THEN \E k \in i..Len(text) : MatchAt(toks, text, j + 1, k + 1)
    ELSE TokMatch(toks[j], text[i]) /\ MatchAt(toks, text, j + 1, i + 1)

\* Regex::is_match: an unanchored search
RegexMatch(toks, text) == \E i \in 1..(Len(text) + 1) : MatchAt(toks, text, 1, i)

is_match(regex, text) == RegexMatch(regex.inner, text)

\* a shortcut that never applies
is_others_match_Never(regex, text) == FALSE

is_others_match(regex, text) ==
    ~RegexMatch(regex.inner, text) /\ RegexMatch(regex.rev_inner, text)

\* every exclude is instant-stop
ExclusionManagerAllStop(exclusions, inclusions) ==
    [ instant_stop_regexes |-> exclusions,
      list_only_regexes    |-> << >>,
      include_regexes      |-> inclusions ]

\* ExclusionManager::new
ExclusionManagerNew(exclusions, inclusions) ==
    LET listOnly(e) == \E i \in 1..Len(inclusions) : IsPrefix(e.inner, inclusions[i].inner)
    IN  [ instant_stop_regexes |-> SelectSeq(exclusions, LAMBDA e : ~listOnly(e)),
          list_only_regexes    |-> SelectSeq(exclusions, listOnly),
          include_regexes      |-> inclusions ]

\* the excludes are asked before the includes
match_str_ExcludeFirst(mgr, text) ==
    IF \E i \in 1..Len(mgr.instant_stop_regexes) :
            RegexMatch(mgr.instant_stop_regexes[i].inner, text)
        THEN "Stop"
    ELSE IF \E i \in 1..Len(mgr.include_regexes) :
            RegexMatch(mgr.include_regexes[i].inner, text)
        THEN "Ok"
    ELSE IF \E i \in 1..Len(mgr.include_regexes) :
            /\ ~RegexMatch(mgr.include_regexes[i].inner, text)
            /\ RegexMatch(mgr.include_regexes[i].rev_inner, text)
        THEN "Stop"
    ELSE IF \E i \in 1..Len(mgr.list_only_regexes) :
            RegexMatch(mgr.list_only_regexes[i].inner, text)
        THEN "ListOnly"
    ELSE "Ok"

\* ExclusionManager::match_str
match_str(mgr, text) ==
    IF \E i \in 1..Len(mgr.include_regexes) : is_match(mgr.include_regexes[i], text)
        THEN "Ok"
    ELSE IF \E i \in 1..Len(mgr.instant_stop_regexes) :
                is_match(mgr.instant_stop_regexes[i], text)
        THEN "Stop"
    ELSE IF \E i \in 1..Len(mgr.include_regexes) :
                is_others_match(mgr.include_regexes[i], text)
        THEN "Stop"
    ELSE IF \E i \in 1..Len(mgr.list_only_regexes) :
                is_match(mgr.list_only_regexes[i], text)
        THEN "ListOnly"
    ELSE "Ok"

exclusion_manager == ExclusionManagerNew(args.exclude, args.include)

(***************************************************************************)
(* The local filesystem: a function from the paths that exist to nodes.    *)
(***************************************************************************)
DirNode == [ kind |-> "dir" ]

SymlinkNode(target) == [ kind |-> "symlink", target |-> target ]

\* a regular file: `written` chunks of a body of `total` chunks fetched from `src`
FileNode(src, written, total, mtime) ==
    [ kind |-> "file", src |-> src, written |-> written, total |-> total, mtime |-> mtime ]

\* a file that was on disk before the run
LocalFile(size, mtime) == FileNode(<< "local" >>, size, size, mtime)

\* one level of symlink resolution: a symlink names a sibling
Resolve(f, p) ==
    IF p \in DOMAIN f /\ f[p].kind = "symlink" THEN Join(Parent(p), << f[p].target >>) ELSE p

\* Path::metadata (follows symlinks); "NotFound" when nothing is there
Metadata(f, p) ==
    LET q == Resolve(f, p)
    IN  IF q \in DOMAIN f /\ f[q].kind # "symlink" THEN f[q] ELSE [ kind |-> "NotFound" ]

\* Path::exists (follows symlinks)
PathExists(f, p) == Metadata(f, p).kind # "NotFound"

\* utils::is_symlink
is_symlink(f, p) == p \in DOMAIN f /\ f[p].kind = "symlink"

\* std::fs::create_dir_all can do its work: every component is, or can become, a directory
CanCreateDirAll(f, p) ==
    \A k \in 1..Len(p) :
        SubSeq(p, 1, k) \in DOMAIN f => Metadata(f, SubSeq(p, 1, k)).kind = "dir"

\* std::fs::create_dir_all
CreateDirAll(f, p) ==
    LET missing == { SubSeq(p, 1, k) : k \in 1..Len(p) } \ DOMAIN f
    IN  [ q \in DOMAIN f \cup missing |-> IF q \in DOMAIN f THEN f[q] ELSE DirNode ]

WriteNode(f, p, node) == [ q \in DOMAIN f \cup {p} |-> IF q = p THEN node ELSE f[q] ]

RemoveNode(f, p) == [ q \in DOMAIN f \ {p} |-> f[q] ]

\* std::fs::rename of a file
Rename(f, from, to) == RemoveNode(WriteNode(f, to, f[from]), from)

Children(f, p) == { q \in DOMAIN f : Len(q) = Len(p) + 1 /\ IsPrefix(p, q) }

Descendants(f, p) == { q \in DOMAIN f : Len(q) > Len(p) /\ IsPrefix(p, q) }

(***************************************************************************)
(* Remote items and the freshness comparator (src/src/compare.rs).         *)
(***************************************************************************)
NoSize == [ kind |-> "None", size |-> 0 ]

Precise(n) == [ kind |-> "Precise", size |-> n ]

FileItem(dir, name, size, mtime) ==
    [ url |-> dir \o << name >>, name |-> name, type_ |-> "File",
      size |-> Precise(size), mtime |-> mtime, skip_check |-> FALSE ]

DirItem(dir, name) ==
    [ url |-> dir \o << name >>, name |-> name, type_ |-> "Directory",
      size |-> NoSize, mtime |-> 0, skip_check |-> FALSE ]

NoItem ==
    [ url |-> << >>, name |-> "", type_ |-> "File", size |-> NoSize, mtime |-> 0,
      skip_check |-> FALSE ]

\* Option<FixedOffset>: the offset east of UTC, in seconds
NoTz == [ some |-> FALSE, offset |-> 0 ]

Tz(offset) == [ some |-> TRUE, offset |-> offset ]

Abs(x) == IF x < 0 THEN -x ELSE x

\* integer division that truncates toward zero, as chrono's num_hours/num_minutes
Trunc(x, d) == IF x < 0 THEN -((-x) \div d) ELSE x \div d

\* a conversion that drifts from one call to the next
naive_to_utc_Drift(naive, timezone) ==
    (IF ~timezone.some THEN naive ELSE naive - timezone.offset)
        + (IF probe.call = "should_download_by_list" /\ probe.out # "none" THEN 90000 ELSE 0)

\* utils::naive_to_utc; time in seconds, a timezone is its offset east of UTC
naive_to_utc(naive, timezone) ==
    IF ~timezone.some THEN naive ELSE naive - timezone.offset

\* compare::compare_filetype
compare_filetype(kind, tsumugu_type) ==
    IF tsumugu_type = "File" THEN kind = "file" ELSE kind = "dir"

\* a comparator that asks the flags before it stats the path
should_download_by_list_FlagsFirst(f, path, item, remote_timezone, skip_if_exists, size_only) ==
    LET m == Metadata(f, path)
        remote_size == IF item.size.kind = "None" THEN Precise(0) ELSE item.size
        local_size == IF m.kind = "file" THEN m.written ELSE 0
        offset == naive_to_utc(item.mtime, remote_timezone) - m.mtime
    IN  IF skip_if_exists \/ item.skip_check THEN FALSE
        ELSE IF m.kind = "NotFound" THEN TRUE
        ELSE IF ~compare_filetype(m.kind, item.type_) THEN TRUE
        ELSE IF local_size # remote_size.size THEN TRUE
        ELSE IF size_only THEN FALSE
        ELSE IF ~remote_timezone.some THEN Abs(Trunc(offset, 3600)) > 24
        ELSE Abs(Trunc(offset, 60)) > 1

\* compare::should_download_by_list
should_download_by_list(f, path, item, remote_timezone, skip_if_exists, size_only) ==
    LET m == Metadata(f, path)
        remote_size == IF item.size.kind = "None" THEN Precise(0) ELSE item.size
        local_size == IF m.kind = "file" THEN m.written ELSE 0
        offset == naive_to_utc(item.mtime, remote_timezone) - m.mtime
    IN  IF m.kind = "NotFound" THEN TRUE
        ELSE IF skip_if_exists \/ item.skip_check THEN FALSE
        ELSE IF ~compare_filetype(m.kind, item.type_) THEN TRUE
        ELSE IF local_size # remote_size.size THEN TRUE
        ELSE IF size_only THEN FALSE
        ELSE IF ~remote_timezone.some THEN Abs(Trunc(offset, 3600)) > 24
        ELSE Abs(Trunc(offset, 60)) > 1

\* compare::should_download_by_head: the HEAD response as a ListItem
should_download_by_head(f, path, resp, size_only) ==
    should_download_by_list(f, path,
        [ url |-> resp.url, name |-> Last(path), type_ |-> "File",
          size |-> Precise(resp.content_length), mtime |-> resp.last_modified,
          skip_check |-> FALSE ],
        Tz(0), FALSE, size_only)


(***************************************************************************)
(* Tasks and the locals of a worker.                                       *)
(***************************************************************************)
ListingTask(relative, url) ==
    [ task |-> "Listing", item |-> NoItem, relative |-> relative, url |-> url ]

DownloadTask(item, relative, url) ==
    [ task |-> "Download", item |-> item, relative |-> relative, url |-> url ]

NoTask == [ task |-> "None", item |-> NoItem, relative |-> << >>, url |-> << >> ]

NoResp == [ url |-> << >>, content_length |-> 0, last_modified |-> 0 ]

Idle ==
    [ task |-> NoTask, excl |-> "Ok", items |-> << >>, should_download |-> FALSE,
      mtime |-> 0, written |-> 0, packages |-> << >>, old_wake |-> 0, sidx |-> 0 ]

Workers == 1..args.threads

\* let cwd = download_dir.join(&relative)
Cwd(task) == Join(download_dir, task.relative)

\* let expected_path = cwd.join(&item.name)
ExpectedPath(task) == Join(Cwd(task), << task.item.name >>)

\* let relative_filepath = PathBuf::from(&relative).join(&item.name)
RelativeFilepath(task) == task.relative \o << task.item.name >>

\* let tmp_path = cwd.join(format!(".tmp.{}", item.name))
TmpPath(task) == Join(Cwd(task), << TmpName(task.item.name) >>)

(***************************************************************************)
(* The runs the model explores: arguments, upstream and local tree.        *)
(***************************************************************************)
\* an index page; `row` tells whether it holds a row the parser cannot read:
\* "ok" (none), "date" (the metadata has the shape of a date and a size but the
\* date is no calendar date), "text" (the metadata has another shape)
Page(items) ==
    [ kind |-> "List", items |-> items, redirect |-> << >>, flaky |-> FALSE, row |-> "ok" ]

FlakyPage(items) ==
    [ kind |-> "List", items |-> items, redirect |-> << >>, flaky |-> TRUE, row |-> "ok" ]

RedirectPage(target) ==
    [ kind |-> "Redirect", items |-> << >>, redirect |-> target, flaky |-> FALSE,
      row |-> "ok" ]

RemoteFile(size, mtime) ==
    [ size |-> size, last_modified |-> mtime, has_mtime |-> TRUE, flaky |-> FALSE,
      breaks |-> FALSE, packages |-> << >> ]

DefaultArgs ==
    [ threads |-> 2, dry_run |-> FALSE, no_delete |-> FALSE, max_delete |-> 100,
      head_before_get |-> FALSE, apt_packages |-> FALSE,
      allow_mtime_from_parser |-> FALSE, retry |-> 3,
      exclude |-> << >>, include |-> << >>,
      skip_if_exists |-> << >>, compare_size_only |-> << >>,
      timezone |-> NoTz, now |-> 900000 ]

ThreadCounts == 1..MaxThreads

M(rel) == Join(download_dir, rel)

\* an upstream with an empty root index
ScEmpty ==
    { [ args |-> [DefaultArgs EXCEPT !.threads = n],
        remote |-> (<< >> :> Page(<< >>)),
        rfiles |-> << >>,
        fs |-> (M(<< "old" >>) :> LocalFile(1, 1000)) ] : n \in ThreadCounts }

\* a file and a directory with a file; one stale local copy and one orphan
ScBasic ==
    { [ args |-> [DefaultArgs EXCEPT !.threads = n, !.head_before_get = (n = 1)],
        remote |-> (<< >> :> Page(<< FileItem(<< >>, "f", 2, 1000), DirItem(<< >>, "d") >>))
                   @@ (<< "d" >> :> Page(<< FileItem(<< "d" >>, "g", 1, 1000) >>)),
        rfiles |-> (<< "f" >> :> RemoteFile(2, 1000)) @@ (<< "d", "g" >> :> RemoteFile(1, 1000)),
        fs |-> (M(<< "f" >>) :> LocalFile(1, 1000)) @@ (M(<< "old" >>) :> LocalFile(1, 1000)) ]
      : n \in ThreadCounts }

\* a Debian repository: dists/Packages names pool/p, which the index of pool/
\* lists too
ScApt ==
    { [ args |-> [DefaultArgs EXCEPT !.threads = n, !.apt_packages = TRUE],
        remote |-> (<< >> :> Page(<< DirItem(<< >>, "dists"), DirItem(<< >>, "pool") >>))
                   @@ (<< "dists" >> :> Page(<< FileItem(<< "dists" >>, "Packages", 1, 1000) >>))
                   @@ (<< "pool" >> :> Page(<< FileItem(<< "pool" >>, "p", 1, 1000) >>)),
        rfiles |-> (<< "dists", "Packages" >> :>
                        [RemoteFile(1, 1000) EXCEPT !.packages = << << "pool", "p" >> >>])
                   @@ (<< "pool", "p" >> :> RemoteFile(1, 1000)),
        fs |-> << >> ] : n \in ThreadCounts }
    \cup
    \* the same with a Packages file kept from an earlier run (up to date or
    \* not), a GET of Packages that may fail, and possibly a file named
    \* Packages beside dists/
    { [ args |-> [DefaultArgs EXCEPT !.threads = 1, !.apt_packages = TRUE],
        remote |-> (<< >> :> Page(<< DirItem(<< >>, "dists") >>
                                  \o (IF stray THEN << FileItem(<< >>, "Packages", 1, 1000) >>
                                      ELSE << >>)))
                   @@ (<< "dists" >> :> Page(<< FileItem(<< "dists" >>, "Packages", 1, 1000) >>)),
        rfiles |-> (<< "dists", "Packages" >> :>
                        [RemoteFile(1, 1000) EXCEPT !.packages = << << "pool", "p" >> >>,
                                                    !.flaky = flaky])
                   @@ (<< "Packages" >> :> RemoteFile(1, 1000))
                   @@ (<< "pool", "p" >> :> RemoteFile(1, 1000)),
        fs |-> local ]
      : stray \in BOOLEAN, flaky \in BOOLEAN,
        local \in { << >> }
                  \cup { (M(<< "dists" >>) :> DirNode)
                         @@ (M(<< "dists", "Packages" >>) :>
                                FileNode(<< "dists", "Packages" >>, 1, 1, mtime))
                         : mtime \in { 1000, 500000 } } }

\* exclusions: `x` and `s` stop, `d` is list-only because `d/g` is included
ScExcl ==
    { [ args |-> [DefaultArgs EXCEPT !.threads = n,
                     !.exclude = << FromStr(<< "x" >>), FromStr(<< "d" >>),
                                    FromStr(<< "s" >>) >>,
                     !.include = << FromStr(<< "d", "g" >>) >>],
        remote |-> (<< >> :> Page(<< FileItem(<< >>, "x", 1, 1000), DirItem(<< >>, "d"),
                                     DirItem(<< >>, "s") >>))
                   @@ (<< "d" >> :> Page(<< FileItem(<< "d" >>, "g", 1, 1000),
                                            FileItem(<< "d" >>, "h", 1, 1000) >>))
                   @@ (<< "s" >> :> Page(<< FileItem(<< "s" >>, "k", 1, 1000) >>)),
        rfiles |-> (<< "x" >> :> RemoteFile(1, 1000)) @@ (<< "d", "g" >> :> RemoteFile(1, 1000))
                   @@ (<< "d", "h" >> :> RemoteFile(1, 1000))
                   @@ (<< "s", "k" >> :> RemoteFile(1, 1000)),
        fs |-> (M(<< "x" >>) :> LocalFile(1, 1000)) @@ (M(<< "d" >>) :> DirNode)
               @@ (M(<< "d", "g" >>) :> LocalFile(1, 1000)) ] : n \in ThreadCounts }

\* a directory whose listing may fail
ScFail ==
    { [ args |-> [DefaultArgs EXCEPT !.threads = n],
        remote |-> (<< >> :> Page(<< DirItem(<< >>, "d") >>))
                   @@ (<< "d" >> :> FlakyPage(<< FileItem(<< "d" >>, "g", 1, 1000) >>)),
        rfiles |-> (<< "d", "g" >> :> RemoteFile(1, 1000)),
        fs |-> (M(<< "d" >>) :> DirNode) @@ (M(<< "d", "g" >>) :> LocalFile(1, 1000))
               @@ (M(<< "old" >>) :> LocalFile(1, 1000)) ] : n \in ThreadCounts }

\* a directory that redirects to its sibling
ScRedirect ==
    { [ args |-> [DefaultArgs EXCEPT !.threads = 1, !.dry_run = dry],
        remote |-> (<< >> :> Page(<< DirItem(<< >>, "r"), DirItem(<< >>, "t") >>))
                   @@ (<< "r" >> :> RedirectPage(<< "t", "" >>))
                   @@ (<< "t" >> :> Page(<< >>)),
        rfiles |-> << >>,
        fs |-> local ]
      : dry \in BOOLEAN,
        local \in { << >>, (M(<< "r" >>) :> SymlinkNode("t")) @@ (M(<< "t" >>) :> DirNode),
                    (M(<< "r" >>) :> DirNode) } }

\* an upstream directory that holds f and a file named like f's temp file
ScTmp ==
    { [ args |-> [DefaultArgs EXCEPT !.threads = n],
        remote |-> (<< >> :> Page(<< FileItem(<< >>, ".tmp.f", 1, 1000),
                                     FileItem(<< >>, "f", 2, 1000) >>)),
        rfiles |-> (<< ".tmp.f" >> :> RemoteFile(1, 1000)) @@ (<< "f" >> :> RemoteFile(2, 1000)),
        fs |-> << >> ] : n \in ThreadCounts }

\* the deletion pass: an up-to-date file and three orphans, under every policy
ScReconcile ==
    { [ args |-> [DefaultArgs EXCEPT !.threads = 1, !.dry_run = dry, !.no_delete = nd,
                                     !.max_delete = md],
        remote |-> (<< >> :> Page(<< FileItem(<< >>, "f", 1, 1000) >>)),
        rfiles |-> (<< "f" >> :> RemoteFile(1, 1000)),
        fs |-> (M(<< "f" >>) :> LocalFile(1, 1000)) @@ (M(<< "a" >>) :> LocalFile(1, 1000))
               @@ (M(<< "c" >>) :> DirNode) @@ (M(<< "c", "b" >>) :> LocalFile(1, 1000)) ]
      : dry \in BOOLEAN, nd \in BOOLEAN, md \in {0, 1, 2, 100} }

\* downloads that can fail: the GET may fail, or carries no Last-Modified
ScGet ==
    { [ args |-> [DefaultArgs EXCEPT !.threads = 1, !.allow_mtime_from_parser = allow,
                                     !.head_before_get = FALSE, !.timezone = Tz(3600)],
        remote |-> (<< >> :> Page(<< FileItem(<< >>, "f", 1, 50000) >>)),
        rfiles |-> (<< "f" >> :> [RemoteFile(1, 40000) EXCEPT !.flaky = flaky,
                                                             !.has_mtime = has]),
        fs |-> (M(<< "old" >>) :> LocalFile(1, 1000)) @@ (M(<< "f" >>) :> LocalFile(2, 1000)) ]
      : allow \in BOOLEAN, flaky \in BOOLEAN, has \in BOOLEAN }

\* a body whose transfer can break, next to a file that downloads well
ScBreak ==
    { [ args |-> [DefaultArgs EXCEPT !.threads = n],
        remote |-> (<< >> :> Page(<< FileItem(<< >>, "f", 2, 1000),
                                     FileItem(<< >>, "g", 1, 1000) >>)),
        rfiles |-> (<< "f" >> :> [RemoteFile(2, 1000) EXCEPT !.breaks = TRUE])
                   @@ (<< "g" >> :> RemoteFile(1, 1000)),
        fs |-> (M(<< "f" >>) :> LocalFile(1, 500)) ] : n \in ThreadCounts }

\* a list-only exclude that matches a file of the root and a directory above a
\* subdirectory
ScListOnly ==
    { [ args |-> [DefaultArgs EXCEPT !.threads = 1,
                     !.exclude = << FromStr(<< "h" >>), FromStr(<< "d" >>) >>,
                     !.include = << FromStr(<< "h", "z" >>), FromStr(<< "d", "e", "g" >>) >>],
        remote |-> (<< >> :> Page(<< FileItem(<< >>, "h", 1, 1000), DirItem(<< >>, "d") >>))
                   @@ (<< "d" >> :> Page(<< DirItem(<< "d" >>, "e"),
                                            FileItem(<< "d" >>, "k", 1, 1000) >>))
                   @@ (<< "d", "e" >> :> Page(<< FileItem(<< "d", "e" >>, "g", 1, 1000) >>)),
        rfiles |-> (<< "h" >> :> RemoteFile(1, 1000)) @@ (<< "d", "k" >> :> RemoteFile(1, 1000))
                   @@ (<< "d", "e", "g" >> :> RemoteFile(1, 1000)),
        fs |-> << >> ] }

\* a file that matches --compare-size-only: same size as the local file, a
\* much newer mtime
ScSizeOnly ==
    { [ args |-> [DefaultArgs EXCEPT !.threads = 1, !.head_before_get = head,
                     !.compare_size_only = << FromStr(<< "f" >>) >>],
        remote |-> (<< >> :> Page(<< FileItem(<< >>, "f", 1, 500000) >>)),
        rfiles |-> (<< "f" >> :> RemoteFile(1, 500000)),
        fs |-> (M(<< "f" >>) :> LocalFile(1, 1000)) ] : head \in BOOLEAN }

\* every way to a non-zero exit code at once: a root index or a download that
\* may fail, orphans of which one may not be removed, a small max_delete
ScExit ==
    { [ args |-> [DefaultArgs EXCEPT !.threads = 1, !.max_delete = md, !.dry_run = dry],
        remote |-> (<< >> :> [Page(<< FileItem(<< >>, "f", 1, 1000),
                                      FileItem(<< >>, "g", 1, 1000) >>)
                                 EXCEPT !.flaky = flakyList]),
        rfiles |-> (<< "f" >> :> RemoteFile(1, 1000))
                   @@ (<< "g" >> :> [RemoteFile(1, 1000) EXCEPT !.flaky = flakyGet]),
        fs |-> (M(<< "f" >>) :> LocalFile(1, 1000)) @@ (M(<< "a" >>) :> LocalFile(1, 1000))
               @@ (M(<< "c" >>) :> DirNode) @@ (M(<< "c", "b" >>) :> LocalFile(1, 1000)),
        locked |-> lk ]
      : md \in {1, 100}, dry \in BOOLEAN, flakyList \in BOOLEAN, flakyGet \in BOOLEAN,
        lk \in { {}, { M(<< "c", "b" >>) } } }

\* local directories that are symlinks: the download directory itself (to its
\* sibling `real`) and d (to its sibling t); upstream d holds a directory e
ScSymlink ==
    { [ args |-> [DefaultArgs EXCEPT !.threads = 1],
        remote |-> (<< >> :> Page(<< DirItem(<< >>, "d") >>))
                   @@ (<< "d" >> :> [Page(<< DirItem(<< "d" >>, "e") >>)
                                        EXCEPT !.flaky = flaky])
                   @@ (<< "d", "e" >> :> Page(<< >>)),
        rfiles |-> << >>,
        fs |-> root @@ local ]
      : flaky \in BOOLEAN,
        root \in { << >>, (download_dir :> SymlinkNode("real")) @@ (<< "real" >> :> DirNode) },
        local \in { << >>,
                    (M(<< "d" >>) :> DirNode),
                    (M(<< "d" >>) :> SymlinkNode("t")) @@ (M(<< "t" >>) :> DirNode),
                    (M(<< "d" >>) :> SymlinkNode("gone")) } }

\* an index page of d with a row the parser cannot read, beside a file g
ScBadRow ==
    { [ args |-> [DefaultArgs EXCEPT !.threads = 1],
        remote |-> (<< >> :> Page(<< DirItem(<< >>, "d"), FileItem(<< >>, "g", 1, 1000) >>))
                   @@ (<< "d" >> :> [Page(<< DirItem(<< "d" >>, "e") >>) EXCEPT !.row = row])
                   @@ (<< "d", "e" >> :> Page(<< >>)),
        rfiles |-> (<< "g" >> :> RemoteFile(1, 1000)),
        fs |-> << >> ] : row \in { "ok", "date", "text" } }

\* an exclude that matches every path, the empty relative path of the root
\* included (the regex is the empty one)
ScRootStop ==
    { [ args |-> [DefaultArgs EXCEPT !.threads = 1, !.exclude = << FromStr(<< >>) >>],
        remote |-> (<< >> :> Page(<< FileItem(<< >>, "f", 1, 1000) >>)),
        rfiles |-> (<< "f" >> :> RemoteFile(1, 1000)),
        fs |-> local ]
      : local \in { << >>, (M(<< "a" >>) :> LocalFile(1, 1000)) } }

Scenarios ==
    ScRootStop \cup ScBadRow \cup ScSymlink \cup ScExit \cup ScSizeOnly \cup ScListOnly \cup ScBreak \cup ScEmpty \cup ScBasic \cup ScApt \cup ScExcl \cup ScFail \cup ScRedirect \cup ScTmp
        \cup ScReconcile \cup ScGet

\* no pure function is being called
NoProbe == [ call |-> "none" ]

Init ==
    \E sc \in Scenarios :
        /\ args = sc.args
        /\ remote = sc.remote
        /\ rfiles = sc.rfiles
        /\ fs = IF sc.args.dry_run THEN sc.fs @@ (download_dir :> DirNode)
                ELSE CreateDirAll(sc.fs @@ (download_dir :> DirNode), download_dir)
        /\ global = << ListingTask(<< >>, upstream) >>
        /\ deque = [ w \in 1..sc.args.threads |-> << >> ]
        /\ active_cnt = 0
        /\ wake = 0
        /\ remote_list = {}
        /\ stat_objects = 0
        /\ stat_size = 0
        /\ failure_listing = FALSE
        /\ failure_downloading = FALSE
        /\ pc = [ w \in 1..sc.args.threads |-> "start" ]
        /\ loc = [ w \in 1..sc.args.threads |-> Idle ]
        /\ phase = "crawl"
        /\ walked = {}
        /\ del_cnt = 0
        /\ exit_code = 0
        /\ hist = [ pushed |-> 0, popped |-> 0, consumed |-> 0, finished |-> 0,
                    started |-> << >>, passed |-> << >>, skipped |-> << >>,
                    body |-> << >>, gets |-> << >>, removed |-> {},
                    broken |-> {}, aborted |-> FALSE, rmfailed |-> {}, written |-> {},
                listed |-> {},
                    panicked |-> FALSE ]
        /\ locked = IF "locked" \in DOMAIN sc THEN sc.locked ELSE {}
        /\ probe = NoProbe

envVars == << args, remote, rfiles, locked, probe >>

statVars == << stat_objects, stat_size >>

flagVars == << failure_listing, failure_downloading >>

reconVars == << phase, walked, del_cnt, exit_code >>

Goto(w, where) == pc' = [pc EXCEPT ![w] = where]

\* the task is over (a `continue`, or the end of the loop body): back to the pop chain
Continue(w) ==
    /\ pc' = [pc EXCEPT ![w] = "pop"]
    /\ loc' = [loc EXCEPT ![w] = Idle]

\* history: one more event at key k of a counting function
Count(f, k) == IF k \in DOMAIN f THEN f[k] ELSE 0

Bump(f, k) == [ q \in DOMAIN f \cup {k} |-> IF q = k THEN Count(f, k) + 1 ELSE f[q] ]

(***************************************************************************)
(* The worker loop: the pop chain and the active/wake protocol             *)
(* (sync.rs 179-189 and 429-455).                                          *)
(***************************************************************************)
\* active_cnt.fetch_add(1)
FetchAdd(w) ==
    /\ phase = "crawl" /\ pc[w] = "start"
    /\ active_cnt' = active_cnt + 1
    /\ Goto(w, "pop")
    /\ UNCHANGED << envVars, fs, global, deque, wake, remote_list, statVars, flagVars,
                    loc, reconVars, hist >>

\* worker.pop()
PopOwn(w) ==
    /\ phase = "crawl" /\ pc[w] = "pop"
    /\ IF deque[w] # << >>
       THEN /\ deque' = [deque EXCEPT ![w] = Tail(deque[w])]
            /\ loc' = [loc EXCEPT ![w] = [Idle EXCEPT !.task = Head(deque[w])]]
            /\ hist' = [hist EXCEPT !.popped = hist.popped + 1]
            /\ Goto(w, "task")
       ELSE /\ Goto(w, "inj")
            /\ UNCHANGED << deque, loc, hist >>
    /\ UNCHANGED << envVars, fs, global, active_cnt, wake, remote_list, statVars,
                    flagVars, reconVars >>

\* global.steal_batch_and_pop(&worker): a batch moves to the worker's deque, its
\* first task is popped
StealInjector(w) ==
    /\ phase = "crawl" /\ pc[w] = "inj"
    /\ IF global # << >>
       THEN \E k \in 1..Len(global) :
            /\ global' = SubSeq(global, k + 1, Len(global))
            /\ deque' = [deque EXCEPT ![w] = deque[w] \o SubSeq(global, 2, k)]
            /\ loc' = [loc EXCEPT ![w] = [Idle EXCEPT !.task = Head(global)]]
            /\ hist' = [hist EXCEPT !.popped = hist.popped + 1]
            /\ Goto(w, "task")
       ELSE /\ Goto(w, "steal")
            /\ loc' = [loc EXCEPT ![w].sidx = 1]
            /\ UNCHANGED << global, deque, hist >>
    /\ UNCHANGED << envVars, fs, active_cnt, wake, remote_list, statVars, flagVars,
                    reconVars >>

\* stealers.iter().map(|s| s.steal()).collect(): one stealer after the other, the
\* first success wins
StealPeer(w) ==
    /\ phase = "crawl" /\ pc[w] = "steal"
    /\ LET i == loc[w].sidx
       IN  IF i > args.threads
           THEN /\ Goto(w, "dec")
                /\ loc' = [loc EXCEPT ![w] = Idle]
                /\ UNCHANGED << deque, hist >>
           ELSE IF deque[i] # << >>
           THEN /\ deque' = [deque EXCEPT ![i] = Tail(deque[i])]
                /\ loc' = [loc EXCEPT ![w] = [Idle EXCEPT !.task = Head(deque[i])]]
                /\ hist' = [hist EXCEPT !.popped = hist.popped + 1]
                /\ Goto(w, "task")
           ELSE /\ loc' = [loc EXCEPT ![w].sidx = i + 1]
                /\ UNCHANGED << pc, deque, hist >>
    /\ UNCHANGED << envVars, fs, global, active_cnt, wake, remote_list, statVars,
                    flagVars, reconVars >>

\* the test made on the value after the decrement
AfterFetchSubPost(active) == IF active - 1 = 1 THEN "done" ELSE "sleep"

\* what the worker does with the value fetch_sub returned
AfterFetchSub(active) == IF active = 1 THEN "done" ELSE "sleep"

\* let active = active_cnt.fetch_sub(1); if active == 1 { break }
FetchSub(w) ==
    /\ phase = "crawl" /\ pc[w] = "dec"
    /\ active_cnt' = active_cnt - 1
    /\ Goto(w, AfterFetchSub(active_cnt))
    /\ UNCHANGED << envVars, fs, global, deque, wake, remote_list, statVars, flagVars,
                    loc, reconVars, hist >>

\* sleep(100ms); let old_wake = wake.load()
SleepLoad(w) ==
    /\ phase = "crawl" /\ pc[w] = "sleep"
    /\ IF wake > 0
       THEN /\ loc' = [loc EXCEPT ![w].old_wake = wake]
            /\ Goto(w, "cas")
       ELSE UNCHANGED << pc, loc >>
    /\ UNCHANGED << envVars, fs, global, deque, active_cnt, wake, remote_list, statVars,
                    flagVars, reconVars, hist >>

\* a plain store of old_wake - 1 in place of the compare_exchange
CompareExchangeStore(w) ==
    /\ phase = "crawl" /\ pc[w] = "cas"
    /\ wake' = loc[w].old_wake - 1
    /\ hist' = [hist EXCEPT !.consumed = hist.consumed + 1]
    /\ Goto(w, "start")
    /\ loc' = [loc EXCEPT ![w] = Idle]
    /\ UNCHANGED << envVars, fs, global, deque, active_cnt, remote_list, statVars,
                    flagVars, reconVars >>

\* wake.compare_exchange(old_wake, old_wake - 1)
CompareExchange(w) ==
    /\ phase = "crawl" /\ pc[w] = "cas"
    /\ IF wake = loc[w].old_wake
       THEN /\ wake' = wake - 1
            /\ hist' = [hist EXCEPT !.consumed = hist.consumed + 1]
            /\ Goto(w, "start")
       ELSE /\ Goto(w, "sleep")
            /\ UNCHANGED << wake, hist >>
    /\ loc' = [loc EXCEPT ![w] = Idle]
    /\ UNCHANGED << envVars, fs, global, deque, active_cnt, remote_list, statVars,
                    flagVars, reconVars >>


(***************************************************************************)
(* One task (sync.rs 190-427).                                             *)
(***************************************************************************)
Finished(h) == [h EXCEPT !.finished = h.finished + 1]

\* a panic in a worker: the hook installed in main.rs exits the process with 3
Panic ==
    /\ phase' = "exited"
    /\ exit_code' = 3
    /\ UNCHANGED << walked, del_cnt >>

\* a push that overwrites what is queued
PushOverwrite(w, task) == deque' = [deque EXCEPT ![w] = << task >>]

\* worker.push(task)
Push(w, task) == deque' = [deque EXCEPT ![w] = Append(deque[w], task)]

\* the child keeps its parent's relative path
ChildRelativeSame(relative, name) == relative

\* let mut relative = task.relative.clone(); relative.push(item.name)
ChildRelative(relative, name) == Append(relative, name)

\* the set is left as it was
InsertedNothing(set, path) == set

\* remote_list.lock().unwrap().insert(path): the set afterwards
Inserted(set, path) == set \cup {path}

\* The head of the loop body: the verdict on the relative directory, then the
\* first step of the task's arm: a listing task records cwd, a download task
\* creates cwd.
TaskBegin(w) ==
    /\ phase = "crawl" /\ pc[w] = "task"
    /\ LET task == loc[w].task
           cwd  == Cwd(task)
           exclusion_result == match_str(exclusion_manager, task.relative)
       IN  IF exclusion_result = "Stop"
           THEN /\ Continue(w)
                /\ hist' = Finished(hist)
                /\ UNCHANGED << fs, remote_list, reconVars >>
           ELSE IF task.task = "Listing"
           THEN /\ remote_list' = Inserted(remote_list, cwd)
                /\ loc' = [loc EXCEPT ![w].excl = exclusion_result]
                /\ Goto(w, "L_get")
                /\ UNCHANGED << fs, reconVars, hist >>
           ELSE IF args.dry_run \/ CanCreateDirAll(fs, cwd)
           THEN /\ fs' = IF args.dry_run THEN fs ELSE CreateDirAll(fs, cwd)
                /\ loc' = [loc EXCEPT ![w].excl = exclusion_result]
                /\ hist' = [hist EXCEPT !.started = Bump(hist.started, ExpectedPath(task))]
                /\ Goto(w, "D_insert")
                /\ UNCHANGED << remote_list, reconVars >>
           ELSE /\ Panic
                /\ hist' = [hist EXCEPT !.panicked = TRUE]
                /\ UNCHANGED << fs, remote_list, pc, loc >>
    /\ UNCHANGED << envVars, global, deque, active_cnt, wake, statVars, flagVars >>

\* NginxListingParser::get_list on a page that was fetched: the rows are read
\* in turn; captures(..).unwrap() panics on metadata of another shape, and
\* parse_from_str(..)? returns the error of a date that is none
get_list(page) ==
    IF page.row = "text" THEN "Panic"
    ELSE IF page.row = "date" THEN "Err"
    ELSE page.kind

\* again(|| parser.get_list(&client, &task.url), args.retry): what it can return
ListOutcomes(url) ==
    IF url \notin DOMAIN remote THEN {"Err"}
    ELSE IF remote[url].flaky THEN {"Err", get_list(remote[url])}
    ELSE {get_list(remote[url])}

\* the last segment of the target
TargetNameLast(target_url) == target_url[Len(target_url)]

\* target_url.split('/').nth_back(1)
TargetName(target_url) == target_url[Len(target_url) - 1]

\* no directory is skipped for being a symlink
SkipsSymlinkNever(f, cwd, relative) == FALSE

\* if is_symlink(&cwd) && !relative.is_empty() { continue; }
SkipsSymlink(f, cwd, relative) == is_symlink(f, cwd) /\ relative # << >>

\* The listing arm after the insert: the symlink test, the listing itself, and
\* the Redirect case.
ListGet(w) ==
    /\ phase = "crawl" /\ pc[w] = "L_get"
    /\ LET task == loc[w].task
           cwd  == Cwd(task)
           got  == [hist EXCEPT !.listed = hist.listed \cup {cwd}]
       IN  IF SkipsSymlink(fs, cwd, task.relative)
           THEN /\ Continue(w)
                /\ hist' = Finished(hist)
                /\ UNCHANGED << fs, failure_listing, reconVars >>
           ELSE \E outcome \in ListOutcomes(task.url) :
                IF outcome = "Err"
                THEN /\ failure_listing' = TRUE
                     /\ Continue(w)
                     /\ hist' = Finished(got)
                     /\ UNCHANGED << fs, reconVars >>
                ELSE IF outcome = "Panic"
                THEN /\ Panic
                     /\ hist' = [got EXCEPT !.panicked = TRUE]
                     /\ UNCHANGED << fs, pc, loc, failure_listing >>
                ELSE IF outcome = "List"
                THEN /\ loc' = [loc EXCEPT ![w].items = remote[task.url].items]
                     /\ Goto(w, "L_item")
                     /\ hist' = got
                     /\ UNCHANGED << fs, failure_listing, reconVars >>
                ELSE /\ fs' = IF ~PathExists(fs, cwd) /\ Len(remote[task.url].redirect) >= 2
                                 /\ cwd \notin DOMAIN fs /\ PathExists(fs, Parent(cwd))
                              THEN WriteNode(fs, cwd,
                                             SymlinkNode(TargetName(remote[task.url].redirect)))
                              ELSE fs
                     /\ Continue(w)
                     /\ hist' = Finished(got)
                     /\ UNCHANGED << failure_listing, reconVars >>
    /\ UNCHANGED << envVars, global, deque, active_cnt, wake, remote_list, statVars,
                    failure_downloading >>

\* for item in items: the push of the item's task, or the skip of a file in a
\* list-only directory
ListItemPush(w) ==
    /\ phase = "crawl" /\ pc[w] = "L_item"
    /\ LET task == loc[w].task
           items == loc[w].items
           item == Head(items)
       IN  IF items = << >>
           THEN /\ Continue(w)
                /\ hist' = Finished(hist)
                /\ UNCHANGED deque
           ELSE IF item.type_ = "Directory"
           THEN /\ Push(w, ListingTask(ChildRelative(task.relative, item.name), item.url))
                /\ hist' = [hist EXCEPT !.pushed = hist.pushed + 1]
                /\ Goto(w, "L_wake")
                /\ UNCHANGED loc
           ELSE IF loc[w].excl = "ListOnly"
           THEN /\ loc' = [loc EXCEPT ![w].items = Tail(items)]
                /\ UNCHANGED << pc, deque, hist >>
           ELSE /\ Push(w, DownloadTask(item, task.relative, item.url))
                /\ hist' = [hist EXCEPT !.pushed = hist.pushed + 1]
                /\ Goto(w, "L_wake")
                /\ UNCHANGED loc
    /\ UNCHANGED << envVars, fs, global, active_cnt, wake, remote_list, statVars, flagVars,
                    reconVars >>

\* wake.fetch_add(1) after the push, and the statistics of the item
ListItemWake(w) ==
    /\ phase = "crawl" /\ pc[w] = "L_wake"
    /\ LET item == Head(loc[w].items)
       IN  /\ wake' = wake + 1
           /\ stat_size' = IF item.type_ = "File" THEN stat_size + item.size.size
                           ELSE stat_size
           /\ stat_objects' = stat_objects + 1
           /\ loc' = [loc EXCEPT ![w].items = Tail(loc[w].items)]
           /\ Goto(w, "L_item")
    /\ UNCHANGED << envVars, fs, global, deque, active_cnt, remote_list, flagVars,
                    reconVars, hist >>


\* a latch that lets every task through
InsertAlways(set, path) == TRUE

\* remote_list.lock().unwrap().insert(expected_path): TRUE iff the path was absent
Insert(set, path) == path \notin set

\* The download arm from the dedup latch to the file-level verdict.
DownloadInsert(w) ==
    /\ phase = "crawl" /\ pc[w] = "D_insert"
    /\ LET task == loc[w].task
           expected_path == ExpectedPath(task)
       IN  IF ~Insert(remote_list, expected_path)
           THEN /\ Continue(w)
                /\ hist' = Finished([hist EXCEPT
                                !.skipped = Bump(hist.skipped, expected_path)])
                /\ UNCHANGED remote_list
           ELSE /\ remote_list' = Inserted(remote_list, expected_path)
                /\ IF match_str(exclusion_manager, RelativeFilepath(task)) = "Stop"
                   THEN /\ Continue(w)
                        /\ hist' = Finished([hist EXCEPT
                                        !.passed = Bump(hist.passed, expected_path)])
                   ELSE /\ Goto(w, "D_check")
                        /\ hist' = [hist EXCEPT !.passed = Bump(hist.passed, expected_path)]
                        /\ UNCHANGED loc
    /\ UNCHANGED << envVars, fs, global, deque, active_cnt, wake, statVars, flagVars,
                    reconVars >>

\* again(|| head(&client, item.url), args.retry), and GET likewise
HttpOutcomes(url) ==
    IF url \notin DOMAIN rfiles THEN {"Err"}
    ELSE IF rfiles[url].flaky THEN {"Err", "Ok"}
    ELSE {"Ok"}

HeadResp(url) ==
    [ url |-> url, content_length |-> rfiles[url].size,
      last_modified |-> rfiles[url].last_modified ]

AnyMatch(regexes, text) == \E i \in 1..Len(regexes) : is_match(regexes[i], text)

\* the downloader is invoked whatever --dry-run says
InvokesDownloaderAlways(should_download, dry_run) == should_download

\* if should_download && !args.dry_run
InvokesDownloader(should_download, dry_run) == should_download /\ ~dry_run

\* The freshness check by the listing and, with --head-before-get, by HEAD.
DownloadCheck(w) ==
    /\ phase = "crawl" /\ pc[w] = "D_check"
    /\ LET task == loc[w].task
           item == task.item
           expected_path == ExpectedPath(task)
           skip_if_exists == AnyMatch(args.skip_if_exists, RelativeFilepath(task))
           by_list == should_download_by_list(fs, expected_path, item, args.timezone,
                                              skip_if_exists, FALSE)
           compare_size_only == AnyMatch(args.compare_size_only, expected_path)
           next(sd) == IF InvokesDownloader(sd, args.dry_run) THEN "D_get" ELSE "D_apt"
           seen == [hist EXCEPT !.body = Bump(hist.body, expected_path)]
       IN  IF by_list /\ args.head_before_get
           THEN \E outcome \in HttpOutcomes(item.url) :
                IF outcome = "Err"
                THEN /\ failure_downloading' = TRUE
                     /\ Goto(w, next(FALSE))
                     /\ hist' = seen
                     /\ UNCHANGED << loc, reconVars >>
                ELSE IF ~rfiles[item.url].has_mtime
                THEN /\ Panic
                     /\ hist' = [seen EXCEPT !.panicked = TRUE]
                     /\ UNCHANGED << pc, loc, failure_downloading >>
                ELSE /\ Goto(w, next(should_download_by_head(fs, expected_path,
                                         HeadResp(item.url), compare_size_only)))
                     /\ hist' = seen
                     /\ UNCHANGED << loc, failure_downloading, reconVars >>
           ELSE /\ Goto(w, next(by_list))
                /\ hist' = seen
                /\ UNCHANGED << loc, failure_downloading, reconVars >>
    /\ UNCHANGED << envVars, fs, global, deque, active_cnt, wake, remote_list, statVars,
                    failure_listing >>

\* File::create(&tmp_path) can succeed
CanCreateFile(f, p) ==
    /\ Metadata(f, Parent(p)).kind = "dir"
    /\ p \in DOMAIN f => f[p].kind = "file"

\* a response without Last-Modified never fails the download
MissingMtimeTolerated(has_mtime, allow_mtime_from_parser) == FALSE

\* get_async_response_mtime(&resp) is Err and args.allow_mtime_from_parser is off
MissingMtimeFails(has_mtime, allow_mtime_from_parser) ==
    ~has_mtime /\ ~allow_mtime_from_parser

\* The GET, the choice of the mtime, and File::create of the temp file.
DownloadGet(w) ==
    /\ phase = "crawl" /\ pc[w] = "D_get"
    /\ LET task == loc[w].task
           item == task.item
           tmp_path == TmpPath(task)
           got == [hist EXCEPT !.gets = Bump(hist.gets, ExpectedPath(task))]
       IN  \E outcome \in HttpOutcomes(item.url) :
           IF outcome = "Err"
              \/ (outcome = "Ok" /\ MissingMtimeFails(rfiles[item.url].has_mtime,
                                                       args.allow_mtime_from_parser))
           THEN /\ failure_downloading' = TRUE
                /\ Goto(w, "D_apt")
                /\ hist' = got
                /\ UNCHANGED << fs, loc, reconVars >>
           ELSE IF ~CanCreateFile(fs, tmp_path)
           THEN /\ Panic
                /\ hist' = [got EXCEPT !.panicked = TRUE]
                /\ UNCHANGED << fs, pc, loc, failure_downloading >>
           ELSE /\ fs' = WriteNode(fs, tmp_path,
                                   FileNode(item.url, 0, rfiles[item.url].size, args.now))
                /\ loc' = [loc EXCEPT ![w].written = 0,
                                      ![w].mtime = IF rfiles[item.url].has_mtime
                                                   THEN rfiles[item.url].last_modified
                                                   ELSE naive_to_utc(item.mtime, args.timezone)]
                /\ Goto(w, "D_stream")
                /\ hist' = got
                /\ UNCHANGED << failure_downloading, reconVars >>
    /\ UNCHANGED << envVars, global, deque, active_cnt, wake, remote_list, statVars,
                    failure_listing >>

\* stream.next().await: the next chunk, or an error of the transfer
StreamNext(url) == IF rfiles[url].breaks THEN {"Ok", "Err"} ELSE {"Ok"}

\* the open temp file of worker w is still what its path names
HoldsTmp(f, task) ==
    /\ TmpPath(task) \in DOMAIN f
    /\ f[TmpPath(task)].kind = "file"
    /\ f[TmpPath(task)].src = task.item.url

\* while let Some(item) = stream.next().await: one chunk is written; at the end
\* of the stream the mtime is set on the file handle
DownloadStream(w) ==
    /\ phase = "crawl" /\ pc[w] = "D_stream"
    /\ LET task == loc[w].task
           tmp_path == TmpPath(task)
           total == rfiles[task.item.url].size
       IN  IF loc[w].written < total
           THEN \E item \in StreamNext(task.item.url) :
                IF item = "Err"
                THEN \* let chunk = item.unwrap()
                     /\ Panic
                     /\ hist' = [hist EXCEPT !.panicked = TRUE,
                                             !.broken = hist.broken \cup {ExpectedPath(task)}]
                     /\ UNCHANGED << fs, pc, loc >>
                ELSE /\ loc' = [loc EXCEPT ![w].written = loc[w].written + 1]
                     /\ fs' = IF HoldsTmp(fs, task)
                              THEN [fs EXCEPT ![tmp_path].written = loc[w].written + 1]
                              ELSE fs
                     /\ UNCHANGED << pc, reconVars, hist >>
           ELSE /\ fs' = IF HoldsTmp(fs, task)
                         THEN [fs EXCEPT ![tmp_path].mtime = loc[w].mtime]
                         ELSE fs
                /\ Goto(w, "D_rename")
                /\ UNCHANGED << loc, reconVars, hist >>
    /\ UNCHANGED << envVars, global, deque, active_cnt, wake, remote_list, statVars,
                    flagVars >>

\* std::fs::rename(&tmp_path, &expected_path).unwrap()
DownloadRename(w) ==
    /\ phase = "crawl" /\ pc[w] = "D_rename"
    /\ LET task == loc[w].task
           tmp_path == TmpPath(task)
           expected_path == ExpectedPath(task)
       IN  IF tmp_path \in DOMAIN fs
              /\ ~(expected_path \in DOMAIN fs /\ fs[expected_path].kind = "dir")
           THEN /\ fs' = Rename(fs, tmp_path, expected_path)
                /\ Goto(w, "D_apt")
                /\ hist' = [hist EXCEPT !.written = hist.written \cup {expected_path}]
                /\ UNCHANGED reconVars
           ELSE /\ Panic
                /\ hist' = [hist EXCEPT !.panicked = TRUE]
                /\ UNCHANGED << fs, pc >>
    /\ UNCHANGED << envVars, global, deque, active_cnt, wake, remote_list, statVars,
                    flagVars, loc >>


(***************************************************************************)
(* The APT extension (src/src/extensions/apt.rs) as sync.rs 396-425 uses   *)
(* it.                                                                     *)
(***************************************************************************)
\* apt::is_apt_package: "true", "false", or "panic" when the walk up the
\* ancestors reaches one without a file name
is_apt_package(p) ==
    IF Last(p) # "Packages" THEN "false"
    ELSE IF \E k \in 1..Len(p) : p[k] = "dists" THEN "true"
    ELSE "panic"

\* apt::get_debian_root after the first pop of the file name
RECURSIVE DebianRoot(_, _, _)
DebianRoot(path, relative, url) ==
    IF Len(path) = 0 \/ Len(url) = 0 \/ Len(relative) = 0
    THEN [ ok |-> FALSE, relative |-> << >>, url |-> << >> ]
    ELSE IF Last(path) = "dists" /\ Last(url) = "dists"
    THEN [ ok |-> TRUE, relative |-> Parent(relative), url |-> Parent(url) ]
    ELSE DebianRoot(Parent(path), Parent(relative), Parent(url))

get_debian_root(packages_path, relative, packages_url) ==
    IF Len(packages_url) = 0 THEN [ ok |-> FALSE, relative |-> << >>, url |-> << >> ]
    ELSE DebianRoot(Parent(packages_path), relative, Parent(packages_url))

\* the `Filename:` entries of a Packages file, by the URL its body came from
PackagesOf(src) == IF src \in DOMAIN rfiles THEN rfiles[src].packages ELSE << >>

\* apt::parse_package: Ok with the packages, or Err
parse_package(f, packages_path, relative, packages_url) ==
    LET m == Metadata(f, packages_path)
        root == get_debian_root(packages_path, relative, packages_url)
        pool == PackagesOf(m.src)
    IN  IF m.kind # "file" \/ ~root.ok THEN [ ok |-> FALSE, packages |-> << >> ]
        ELSE [ ok |-> TRUE,
               packages |-> [ i \in 1..Len(pool) |->
                                [ url |-> root.url \o pool[i],
                                  relative |-> root.relative \o Parent(pool[i]),
                                  filename |-> Last(pool[i]) ] ] ]

\* the synthetic download task of a package
PackageTask(package, parent) ==
    DownloadTask([ url |-> package.url, name |-> package.filename, type_ |-> "File",
                   size |-> Precise(0), mtime |-> parent.mtime, skip_check |-> TRUE ],
                 package.relative, package.url)

\* The APT check that ends the download arm.
DownloadApt(w) ==
    /\ phase = "crawl" /\ pc[w] = "D_apt"
    /\ LET task == loc[w].task
           expected_path == ExpectedPath(task)
           parsed == parse_package(fs, expected_path, task.relative, task.item.url)
       IN  IF ~args.apt_packages \/ is_apt_package(expected_path) = "false"
           THEN /\ Continue(w)
                /\ hist' = Finished(hist)
                /\ UNCHANGED reconVars
           ELSE IF is_apt_package(expected_path) = "panic"
           THEN /\ Panic
                /\ hist' = [hist EXCEPT !.panicked = TRUE]
                /\ UNCHANGED << pc, loc >>
           ELSE IF ~parsed.ok
           THEN /\ Continue(w)
                /\ hist' = Finished(hist)
                /\ UNCHANGED reconVars
           ELSE /\ loc' = [loc EXCEPT ![w].packages = parsed.packages]
                /\ Goto(w, "D_pkg")
                /\ UNCHANGED << reconVars, hist >>
    /\ UNCHANGED << envVars, fs, global, deque, active_cnt, wake, remote_list, statVars,
                    flagVars >>

\* for package in packages: worker.push(...)
DownloadPkgPush(w) ==
    /\ phase = "crawl" /\ pc[w] = "D_pkg"
    /\ IF loc[w].packages = << >>
       THEN /\ Continue(w)
            /\ hist' = Finished(hist)
            /\ UNCHANGED deque
       ELSE /\ Push(w, PackageTask(Head(loc[w].packages), loc[w].task.item))
            /\ hist' = [hist EXCEPT !.pushed = hist.pushed + 1]
            /\ Goto(w, "D_pkgwake")
            /\ UNCHANGED loc
    /\ UNCHANGED << envVars, fs, global, active_cnt, wake, remote_list, statVars, flagVars,
                    reconVars >>

\* wake.fetch_add(1) after the push of a package's task
DownloadPkgWake(w) ==
    /\ phase = "crawl" /\ pc[w] = "D_pkgwake"
    /\ wake' = wake + 1
    /\ loc' = [loc EXCEPT ![w].packages = Tail(loc[w].packages)]
    /\ Goto(w, "D_pkg")
    /\ UNCHANGED << envVars, fs, global, deque, active_cnt, remote_list, statVars,
                    flagVars, reconVars, hist >>

(***************************************************************************)
(* After the crawl: the deletion pass and the exit (sync.rs 461-530).      *)
(***************************************************************************)
\* a gate that ignores the flag
SkipDeletionNever(failed) == FALSE

\* if failure_listing.load(): "not to delete anything"
SkipDeletion(failed) == failed

\* the main thread does not wait for the workers
ScopeNotJoined == TRUE

\* thread::scope returns once every worker thread has ended
ScopeJoined == \A w \in Workers : pc[w] = "done"

\* thread::scope returns once every worker has left its loop; the listing
\* failure flag gates the walk
ReconcileStart ==
    /\ phase = "crawl"
    /\ ScopeJoined
    /\ IF SkipDeletion(failure_listing)
       THEN /\ exit_code' = 1
            /\ phase' = "finish"
       ELSE /\ phase' = "reconcile"
            /\ UNCHANGED exit_code
    /\ UNCHANGED << envVars, fs, global, deque, active_cnt, wake, remote_list, statVars,
                    flagVars, pc, loc, walked, del_cnt, hist >>

\* the entries of WalkDir::new(download_dir)
WalkEntries(f) == { q \in DOMAIN f : IsPrefix(download_dir, q) }

\* contents_first(true): an entry comes after everything below it, and a
\* directory whose contents have begun is finished before anything beside it
NextEntries(f, done) ==
    { p \in WalkEntries(f) \ done :
        /\ Descendants(f, p) \subseteq done
        /\ \A d \in WalkEntries(f) \ done :
              (\E q \in done : Len(q) > Len(d) /\ IsPrefix(d, q)) => IsPrefix(d, p) }

\* a removal that always succeeds
RemoveNeverFails(f, path) == FALSE

\* std::fs::remove_dir / remove_file is Err: the directory is not empty, or the
\* entry may not be removed
RemoveFails(f, path) ==
    \/ f[path].kind = "dir" /\ Children(f, path) # {}
    \/ path \in locked

\* a threshold that is never reached
ExceedsMaxDeleteNever(cnt, max_delete) == FALSE

\* the threshold test off by one
ExceedsMaxDeleteLate(cnt, max_delete) == cnt > max_delete

\* if del_cnt >= args.max_delete: the pass is aborted
ExceedsMaxDelete(cnt, max_delete) == cnt >= max_delete

\* the membership test inverted
NotInRemoteInverted(path) == path \in remote_list

\* if !remote_list.contains(&path): the entry is a candidate for deletion
NotInRemote(path) == path \notin remote_list

\* One entry of the walk.
ReconcileEntry ==
    /\ phase = "reconcile"
    /\ IF download_dir \notin DOMAIN fs /\ download_dir \notin walked
       THEN /\ exit_code' = IF args.dry_run THEN exit_code ELSE 1
            /\ phase' = "finish"
            /\ UNCHANGED << fs, walked, del_cnt, hist >>
       ELSE IF WalkEntries(fs) \subseteq walked
       THEN /\ phase' = "finish"
            /\ UNCHANGED << fs, walked, del_cnt, exit_code, hist >>
       ELSE \E path \in NextEntries(fs, walked) :
            /\ walked' = walked \cup {path}
            /\ IF ~NotInRemote(path) \/ args.no_delete
               THEN UNCHANGED << fs, del_cnt, exit_code, phase, hist >>
               ELSE IF ExceedsMaxDelete(del_cnt, args.max_delete)
               THEN /\ exit_code' = 25
                    /\ phase' = "finish"
                    /\ hist' = [hist EXCEPT !.aborted = TRUE]
                    /\ UNCHANGED << fs, del_cnt >>
               ELSE IF ~IsPrefix(download_dir, path)
               THEN /\ Panic
                    /\ hist' = [hist EXCEPT !.panicked = TRUE]
                    /\ UNCHANGED fs
               ELSE /\ del_cnt' = del_cnt + 1
                    /\ IF args.dry_run
                       THEN UNCHANGED << fs, exit_code, phase, hist >>
                       ELSE IF RemoveFails(fs, path)
                       THEN /\ exit_code' = 4
                            /\ hist' = [hist EXCEPT !.rmfailed = hist.rmfailed \cup {path}]
                            /\ UNCHANGED << fs, phase >>
                       ELSE /\ fs' = RemoveNode(fs, path)
                            /\ hist' = [hist EXCEPT !.removed = hist.removed \cup {path}]
                            /\ UNCHANGED << exit_code, phase >>
    /\ UNCHANGED << envVars, global, deque, active_cnt, wake, remote_list, statVars,
                    flagVars, pc, loc >>

\* the download failure flag is not looked at
FinalCodeIgnoresFlag(code, failed) == code

\* a download failure counts only when nothing else went wrong
FinalCodeKeep(code, failed) == IF failed /\ code = 0 THEN 2 ELSE code

\* if failure_downloading.load(..) { exit_code = 2 }
FinalCode(code, failed) == IF failed THEN 2 ELSE code

\* the download failure flag and std::process::exit(exit_code)
Exit ==
    /\ phase = "finish"
    /\ exit_code' = FinalCode(exit_code, failure_downloading)
    /\ phase' = "exited"
    /\ UNCHANGED << envVars, fs, global, deque, active_cnt, wake, remote_list, statVars,
                    flagVars, pc, loc, walked, del_cnt, hist >>

WorkerStep(w) ==
    \/ FetchAdd(w)
    \/ PopOwn(w)
    \/ StealInjector(w)
    \/ StealPeer(w)
    \/ FetchSub(w)
    \/ SleepLoad(w)
    \/ CompareExchange(w)
    \/ TaskBegin(w)
    \/ ListGet(w)
    \/ ListItemPush(w)
    \/ ListItemWake(w)
    \/ DownloadInsert(w)
    \/ DownloadCheck(w)
    \/ DownloadGet(w)
    \/ DownloadStream(w)
    \/ DownloadRename(w)
    \/ DownloadApt(w)
    \/ DownloadPkgPush(w)
    \/ DownloadPkgWake(w)

Next ==
    \/ \E w \in Workers : FetchAdd(w)
    \/ \E w \in Workers : PopOwn(w)
    \/ \E w \in Workers : StealInjector(w)
    \/ \E w \in Workers : StealPeer(w)
    \/ \E w \in Workers : FetchSub(w)
    \/ \E w \in Workers : SleepLoad(w)
    \/ \E w \in Workers : CompareExchange(w)
    \/ \E w \in Workers : TaskBegin(w)
    \/ \E w \in Workers : ListGet(w)
    \/ \E w \in Workers : ListItemPush(w)
    \/ \E w \in Workers : ListItemWake(w)
    \/ \E w \in Workers : DownloadInsert(w)
    \/ \E w \in Workers : DownloadCheck(w)
    \/ \E w \in Workers : DownloadGet(w)
    \/ \E w \in Workers : DownloadStream(w)
    \/ \E w \in Workers : DownloadRename(w)
    \/ \E w \in Workers : DownloadApt(w)
    \/ \E w \in Workers : DownloadPkgPush(w)
    \/ \E w \in Workers : DownloadPkgWake(w)
    \/ ReconcileStart
    \/ ReconcileEntry
    \/ Exit

Spec == Init /\ [][Next]_vars

\* every thread is scheduled again and again, and so is the main thread
FairSpec ==
    /\ Spec
    /\ \A w \in 1..MaxThreads : WF_vars(w \in Workers /\ WorkerStep(w))
    /\ WF_vars(ReconcileStart \/ ReconcileEntry \/ Exit)


(***************************************************************************)
(* Calls of the pure functions on inputs drawn from bounded sets: the      *)
(* process itself is at rest, `probe` holds the call.                      *)
(***************************************************************************)
\* the process is not running: nothing is queued, no worker exists
AtRest ==
    /\ remote = << >> /\ rfiles = << >>
    /\ global = << >> /\ deque = << >>
    /\ active_cnt = 0 /\ wake = 0
    /\ remote_list = {}
    /\ stat_objects = 0 /\ stat_size = 0
    /\ failure_listing = FALSE /\ failure_downloading = FALSE
    /\ pc = << >> /\ loc = << >>
    /\ phase = "exited"
    /\ walked = {} /\ del_cnt = 0 /\ exit_code = 0
    /\ hist = [ pushed |-> 0, popped |-> 0, consumed |-> 0, finished |-> 0,
                started |-> << >>, passed |-> << >>, skipped |-> << >>,
                body |-> << >>, gets |-> << >>, removed |-> {},
                broken |-> {}, aborted |-> FALSE, rmfailed |-> {}, written |-> {},
                listed |-> {},
                panicked |-> FALSE ]
    /\ locked = {}

restVars == << remote, rfiles, locked, global, deque, active_cnt, wake, remote_list,
               stat_objects, stat_size, failure_listing, failure_downloading, pc, loc,
               phase, walked, del_cnt, exit_code, hist >>

\* the most rules of a kind (--exclude, --include) in a call
MaxRules == 2

\* the most segments of a path in a call
MaxTextLen == 3

\* the patterns the rules are drawn from, as given on the command line
RulePatterns ==
    << << "dists" >>, << "dists", "bookworm" >>, << "dists", "${DEBIAN_CURRENT}" >>,
       << "sid" >>, << "foo" >> >>

Segments == { "dists", "bookworm", "sid", "foo" }

\* the patterns with index in S from index k on, each parsed by from_str
RECURSIVE Pick(_, _)
Pick(S, k) ==
    IF k > Len(RulePatterns) THEN << >>
    ELSE (IF k \in S THEN << FromStr(RulePatterns[k]) >> ELSE << >>) \o Pick(S, k + 1)

\* the rules of one kind: no more than MaxRules of the patterns
RuleLists ==
    { Pick(S, 1) : S \in { T \in SUBSET (1..Len(RulePatterns)) : Cardinality(T) <= MaxRules } }

Texts == UNION { [ 1..n -> Segments ] : n \in 0..MaxTextLen }

MatchInit ==
    /\ AtRest
    /\ fs = << >>
    /\ \E ex \in RuleLists, inc \in RuleLists, text \in Texts :
          /\ args = [DefaultArgs EXCEPT !.exclude = ex, !.include = inc]
          /\ probe = [ call |-> "match_str", text |-> text, out |-> "none" ]

\* exclusion_manager.match_str(text)
MatchCall ==
    /\ probe.call = "match_str"
    /\ probe.out = "none"
    /\ probe' = [probe EXCEPT !.out = match_str(exclusion_manager, probe.text)]
    /\ UNCHANGED << args, fs, restVars >>

MatchNext == MatchCall

MatchSpec == MatchInit /\ [][MatchNext]_vars

\* the path the comparator is asked about
ProbePath == M(<< "f" >>)

\* what the local path can be: absent, a file, a directory, a symlink to a
\* file, a dangling symlink
LocalStates ==
    { (download_dir :> DirNode) }
    \cup { (download_dir :> DirNode) @@ (ProbePath :> LocalFile(size, 1000000))
             : size \in {1, 2} }
    \cup { (download_dir :> DirNode) @@ (ProbePath :> DirNode) }
    \cup { (download_dir :> DirNode) @@ (ProbePath :> SymlinkNode("t"))
                                     @@ (M(<< "t" >>) :> LocalFile(1, 1000000)) }
    \cup { (download_dir :> DirNode) @@ (ProbePath :> SymlinkNode("t")) }

\* the remote mtime minus the local one, in seconds: around one and two
\* minutes, around 24 and 25 hours
MtimeOffsets ==
    LET d == { 0, 59, 60, 61, 90, 119, 120, 121,
               86399, 86400, 86401, 88200, 89999, 90000, 90001 }
    IN  d \cup { -x : x \in d }

RemoteItems ==
    { [ FileItem(<< >>, "f", 1, 1000000 + d) EXCEPT !.size = size, !.skip_check = sc ]
        : d \in MtimeOffsets, size \in { NoSize, Precise(1) }, sc \in BOOLEAN }

Timezones == { NoTz, Tz(0), Tz(3600) }

Decision(b) == IF b THEN "download" ELSE "skip"

CompareInit ==
    /\ AtRest
    /\ args = DefaultArgs
    /\ fs \in LocalStates
    /\ \E item \in RemoteItems, tz \in Timezones, sie \in BOOLEAN, so \in BOOLEAN :
          probe = [ call |-> "should_download_by_list", item |-> item, timezone |-> tz,
                    skip_if_exists |-> sie, size_only |-> so,
                    out |-> "none", again |-> "none", touched |-> FALSE ]

ProbeCompare ==
    Decision(should_download_by_list(fs, ProbePath, probe.item, probe.timezone,
                                     probe.skip_if_exists, probe.size_only))

\* should_download_by_list(&path, &item, timezone, skip_if_exists, size_only)
CompareCall ==
    /\ probe.call = "should_download_by_list"
    /\ probe.out = "none"
    /\ probe' = [probe EXCEPT !.out = ProbeCompare]
    /\ UNCHANGED << args, fs, restVars >>

\* the local path changes between two calls
Touch ==
    /\ probe.call = "should_download_by_list"
    /\ probe.out # "none" /\ probe.again = "none" /\ ~probe.touched
    /\ fs' \in LocalStates \ {fs}
    /\ probe' = [probe EXCEPT !.touched = TRUE]
    /\ UNCHANGED << args, restVars >>

\* the same call once more
CompareAgain ==
    /\ probe.call = "should_download_by_list"
    /\ probe.out # "none" /\ probe.again = "none"
    /\ probe' = [probe EXCEPT !.again = ProbeCompare]
    /\ UNCHANGED << args, fs, restVars >>

CompareNext ==
    \/ CompareCall
    \/ Touch
    \/ CompareAgain

CompareSpec == CompareInit /\ [][CompareNext]_vars

(***************************************************************************)
(* The retry helper, again / again_async, applied to a closure whose       *)
(* successive calls give the results probe.closure[1], probe.closure[2]... *)
(***************************************************************************)
\* the largest --retry of a call
MaxRetry == 3

\* the results of the closure's calls, more of them than a call may consume
ClosureResults == [ 1..(MaxRetry + 2) -> { "Ok", "Err" } ]

RetryInit ==
    /\ AtRest
    /\ fs = << >>
    /\ \E n \in 0..MaxRetry, res \in ClosureResults :
          /\ args = [DefaultArgs EXCEPT !.retry = n]
          /\ probe = [ call |-> "again", closure |-> res, count |-> 0, calls |-> 0,
                       out |-> [ kind |-> "none", at |-> 0 ] ]

GivesUpEarly(count, retry) == count >= retry

\* if count > retry { return Err(e); }
GivesUp(count, retry) == count > retry

\* one turn of the loop of again: call the closure, match on its result
AgainLoop ==
    /\ probe.call = "again"
    /\ probe.out.kind = "none"
    /\ probe.calls < MaxRetry + 2
    /\ LET n == probe.calls + 1
           count == probe.count + 1
       IN  IF probe.closure[n] = "Ok"
           THEN probe' = [probe EXCEPT !.calls = n,
                                       !.out = [ kind |-> "Ok", at |-> n ]]
           ELSE IF GivesUp(count, args.retry)
           THEN probe' = [probe EXCEPT !.calls = n, !.count = count,
                                       !.out = [ kind |-> "Err", at |-> n ]]
           ELSE probe' = [probe EXCEPT !.calls = n, !.count = count]
    /\ UNCHANGED << args, fs, restVars >>

RetryNext == AgainLoop

\* the closure returns each time it is called, so the loop takes its turns
RetrySpec == RetryInit /\ [][RetryNext]_vars /\ WF_vars(AgainLoop)

(***************************************************************************)
(* Properties.                                                             *)
(***************************************************************************)
\* between fetch_add and fetch_sub
Active(w) == pc[w] \notin {"start", "sleep", "cas", "done"}

AllDone == \A w \in Workers : pc[w] = "done"

RECURSIVE SumLen(_)
SumLen(n) == IF n = 0 THEN 0 ELSE Len(deque[n]) + SumLen(n - 1)

QueuedTasks == Len(global) + SumLen(args.threads)

QueuesEmpty == global = << >> /\ \A w \in Workers : deque[w] = << >>

\* the relative path of an absolute path below the mirror root
RelOf(path) == SubSeq(path, Len(download_dir) + 1, Len(path))

\* C1: with N > 1 workers the pool never deadlocks: no state is reached in
\* which some worker sits in the sleep loop while no worker is active and no
\* wake token is left (from such a state no step of any worker changes anything,
\* so the sleeping workers never leave their loop and the pool never ends).
C1_NoWorkerSleepsForever ==
    ~( /\ phase = "crawl"
       /\ args.threads > 1
       /\ wake = 0
       /\ \E w \in Workers : pc[w] = "sleep"
       /\ \A w \in Workers : pc[w] \in {"sleep", "done"} )

\* C2: a worker leaves its loop only at a fetch_sub that finds it the last
\* active worker, with the injector and every deque empty; and once all workers
\* have left, nothing is queued and every task that was popped or pushed has
\* been run to its end.
C2_ExitOnlyWhenQuiescent ==
    /\ [][ \A w \in Workers :
             (pc[w] = "dec" /\ pc'[w] = "done") =>
                 /\ active_cnt = 1
                 /\ \A v \in Workers \ {w} : ~Active(v)
                 /\ QueuesEmpty ]_vars
    /\ [](AllDone => QueuesEmpty /\ hist.finished = hist.pushed + 1
                     /\ hist.popped = hist.pushed + 1)

C2_Witness ==
    /\ AllDone
    /\ args.threads > 1
    /\ hist.pushed >= 3
    /\ hist.consumed >= 1

CrawlOver == AllDone /\ ~hist.panicked

C4_NoDeletionAfterListingFailure ==
    failure_listing => hist.removed = {} /\ del_cnt = 0

C4_Witness ==
    /\ phase = "exited"
    /\ failure_listing
    /\ \E p \in DOMAIN fs : IsPrefix(download_dir, p) /\ p \notin remote_list

\* C5: the reconciler removes at most max-delete paths in a run.
C5_AtMostMaxDelete ==
    /\ Cardinality(hist.removed) <= args.max_delete
    /\ del_cnt <= args.max_delete

C5_Witness ==
    /\ phase = "exited"
    /\ exit_code = 25
    /\ args.max_delete > 0
    /\ Cardinality(hist.removed) = args.max_delete

\* C6: every path the reconciler removes lies under the mirror root and is not
\* in remote_list; a path in remote_list is never removed.
C6_RemovedOnlyUnobserved ==
    \A p \in hist.removed :
        /\ IsPrefix(download_dir, p)
        /\ p \notin remote_list
        /\ p \notin DOMAIN fs

C6_Witness ==
    /\ phase = "exited"
    /\ hist.removed # {}
    /\ \E p \in remote_list : p # download_dir /\ p \in DOMAIN fs


Verdict(relative) == match_str(exclusion_manager, relative)

\* the index page the crawl gets for a directory, if it gets one
Listed(relative, url) ==
    /\ ~(is_symlink(fs, M(relative)) /\ relative # << >>)
    /\ url \in DOMAIN remote
    /\ remote[url].kind = "List"

\* every remote entry reachable from a directory and not filtered by Stop
RECURSIVE RemoteEntries(_, _)
RemoteEntries(relative, url) ==
    IF Verdict(relative) = "Stop" THEN {}
    ELSE {M(relative)} \cup
         IF url \in DOMAIN remote /\ remote[url].kind = "List"
         THEN UNION { IF it.type_ = "Directory"
                      THEN RemoteEntries(Append(relative, it.name), it.url)
                      ELSE IF Verdict(Append(relative, it.name)) = "Stop" THEN {}
                      ELSE {M(Append(relative, it.name))}
                      : it \in Range(remote[url].items) }
         ELSE {}

\* the same, but only through directories that are listed (not a local symlink),
\* and without the files of a list-only directory
RECURSIVE SelectedEntries(_, _)
SelectedEntries(relative, url) ==
    IF Verdict(relative) = "Stop" THEN {}
    ELSE {M(relative)} \cup
         IF Listed(relative, url)
         THEN UNION { IF it.type_ = "Directory"
                      THEN SelectedEntries(Append(relative, it.name), it.url)
                      ELSE IF Verdict(Append(relative, it.name)) = "Stop"
                              \/ Verdict(relative) = "ListOnly" THEN {}
                      ELSE {M(Append(relative, it.name))}
                      : it \in Range(remote[url].items) }
         ELSE {}

C8_StopBeforeInsert ==
    \A e \in DOMAIN hist.passed : Verdict(RelOf(e)) # "Stop"

Complete(node) == node.kind = "file" => node.written = node.total

\* C9: during the crawl the final path of a download changes only by the rename
\* of its temp file, made when the whole body is written and the mtime is set;
\* the final path never holds a partly written body.
C9_FinalPathOnlyRenamed ==
    /\ [][ \A e \in DOMAIN hist.passed :
             ( phase = "crawl"
               /\ ( (e \in DOMAIN fs) # (e \in DOMAIN fs')
                    \/ (e \in DOMAIN fs /\ e \in DOMAIN fs' /\ fs[e] # fs'[e]) ) )
             => \E w \in Workers :
                   /\ pc[w] = "D_rename" /\ pc'[w] = "D_apt"
                   /\ ExpectedPath(loc[w].task) = e
                   /\ fs[TmpPath(loc[w].task)].written = fs[TmpPath(loc[w].task)].total
                   /\ fs[TmpPath(loc[w].task)].mtime = loc[w].mtime ]_vars
    /\ [](\A e \in DOMAIN hist.passed : e \in DOMAIN fs => Complete(fs[e]))

\* C10: no push loses a task and no worker leaves with tasks in its deque; and
\* under fair scheduling every task that was pushed is popped and run to its
\* end (unless a panic ends the process).
C10_PushedTasksRun ==
    /\ [](hist.popped + QueuedTasks = hist.pushed + 1)
    /\ [](\A w \in Workers : pc[w] \in {"sleep", "cas", "done"} => deque[w] = << >>)
    /\ <>[](hist.panicked \/ (QueuesEmpty /\ hist.finished = hist.pushed + 1))

C10_Witness ==
    /\ args.threads > 1
    /\ \E w \in Workers :
          /\ pc[w] = "L_wake"
          /\ deque[w] # << >>
          /\ \A v \in Workers \ {w} : pc[v] = "sleep"


\* C11: a listing or download failure of one URL only sets its failure flag: in
\* the step that sets a flag the process stays in the crawl, the worker keeps
\* its place in the loop and no queue, path or observed entry changes; and
\* after the failure of a URL (a flag set, or a body whose transfer broke) the
\* process exits only when every worker has left with every task run.
C11_FailureOnlySetsFlag ==
    /\ [][ (failure_listing' # failure_listing \/ failure_downloading' # failure_downloading)
             => /\ phase' = "crawl"
                /\ \A w \in Workers : pc'[w] # "done"
                /\ global' = global /\ deque' = deque
                /\ fs' = fs /\ remote_list' = remote_list ]_vars
    /\ []((failure_listing \/ failure_downloading) /\ ~hist.panicked /\ phase = "exited"
             => AllDone /\ QueuesEmpty /\ hist.finished = hist.pushed + 1)
    /\ [](hist.broken # {} /\ phase = "exited" => AllDone)

\* the temp file of a final path
TmpOf(e) == Join(Parent(e), << TmpName(Last(e)) >>)

\* C12: after an IO error in the transfer of a body, failure_downloading is
\* set, the temp file is gone, the final path is as it was and the worker is
\* back in its loop (the process has not exited).
C12_IoErrorDiscardsTemp ==
    \A e \in hist.broken :
        /\ failure_downloading
        /\ TmpOf(e) \notin DOMAIN fs
        /\ phase # "exited"


Called(name) == probe.call = name /\ probe.out # "none"

AnyInclude(text) ==
    \E i \in 1..Len(args.include) : RegexMatch(args.include[i].inner, text)

AnyOthers(text) ==
    \E i \in 1..Len(args.include) :
        /\ ~RegexMatch(args.include[i].inner, text)
        /\ RegexMatch(args.include[i].rev_inner, text)

AnyIn(bag, text) == \E i \in 1..Len(bag) : RegexMatch(bag[i].inner, text)

\* C13: match_str answers by the cascade: Ok if an include matches; else Stop
\* if an instant-stop exclude matches; else Stop if the shortcut applies to an
\* include; else ListOnly if a list-only exclude matches; else Ok. With one
\* exclude and no include, every path the exclude matches gets Stop.
C13_MatchStrCascade ==
    Called("match_str") =>
        LET mgr == exclusion_manager
            text == probe.text
        IN  /\ AnyInclude(text) => probe.out = "Ok"
            /\ ~AnyInclude(text) /\ AnyIn(mgr.instant_stop_regexes, text)
                  => probe.out = "Stop"
            /\ ~AnyInclude(text) /\ ~AnyIn(mgr.instant_stop_regexes, text) /\ AnyOthers(text)
                  => probe.out = "Stop"
            /\ ( ~AnyInclude(text) /\ ~AnyIn(mgr.instant_stop_regexes, text)
                 /\ ~AnyOthers(text) /\ AnyIn(mgr.list_only_regexes, text) )
                  => probe.out = "ListOnly"
            /\ ( ~AnyInclude(text) /\ ~AnyIn(mgr.instant_stop_regexes, text)
                 /\ ~AnyOthers(text) /\ ~AnyIn(mgr.list_only_regexes, text) )
                  => probe.out = "Ok"
            /\ ( Len(args.exclude) = 1 /\ args.include = << >>
                 /\ RegexMatch(args.exclude[1].inner, text) )
                  => probe.out = "Stop"

C13_Witness ==
    /\ Called("match_str")
    /\ probe.out = "Stop"
    /\ ~AnyIn(exclusion_manager.instant_stop_regexes, probe.text)
    /\ AnyOthers(probe.text)
    /\ AnyIn(exclusion_manager.list_only_regexes, probe.text)

\* C14: ExclusionManager::new puts every exclude in exactly one bag: list-only
\* iff its pattern is a prefix of the pattern of some include, instant-stop
\* otherwise; with exclude `dists` and include `dists/bookworm` the verdict is
\* Ok on dists/bookworm/foo and ListOnly on dists/sid/foo.
C14_ExcludeBags ==
    Called("match_str") =>
        LET mgr == exclusion_manager
            prefixed(e) == \E i \in 1..Len(args.include) :
                              IsPrefix(e.inner, args.include[i].inner)
        IN  /\ Len(mgr.instant_stop_regexes) + Len(mgr.list_only_regexes) = Len(args.exclude)
            /\ Range(mgr.instant_stop_regexes) \cap Range(mgr.list_only_regexes) = {}
            /\ \A e \in Range(args.exclude) :
                  /\ e \in Range(mgr.list_only_regexes) <=> prefixed(e)
                  /\ e \in Range(mgr.instant_stop_regexes) <=> ~prefixed(e)
            /\ ( /\ args.exclude = << FromStr(<< "dists" >>) >>
                 /\ args.include = << FromStr(<< "dists", "bookworm" >>) >> )
                  => /\ probe.text = << "dists", "bookworm", "foo" >> => probe.out = "Ok"
                     /\ probe.text = << "dists", "sid", "foo" >> => probe.out = "ListOnly"

C14_Witness ==
    /\ Called("match_str")
    /\ args.exclude = << FromStr(<< "dists" >>) >>
    /\ args.include = << FromStr(<< "dists", "bookworm" >>) >>
    /\ probe.text = << "dists", "sid", "foo" >>
    /\ probe.out = "ListOnly"

\* an include whose pattern embeds an enumerated alternative
Enumerated(regex) == regex.inner # regex.rev_inner

\* C15 (as stated): for an include with an enumerated alternative, a path that
\* matches the include with the alternative replaced by a wildcard but not with
\* the real alternatives gets Stop; a path that matches it with a real
\* alternative gets Ok.
C15_OtherAlternativeStops ==
    Called("match_str") =>
        \A i \in 1..Len(args.include) :
            Enumerated(args.include[i]) =>
                /\ ( /\ RegexMatch(args.include[i].rev_inner, probe.text)
                     /\ ~RegexMatch(args.include[i].inner, probe.text) )
                      => probe.out = "Stop"
                /\ RegexMatch(args.include[i].inner, probe.text) => probe.out = "Ok"

\* C15 (amended): the same, for a path that no include matches: if another
\* include matches the path the verdict is Ok.
C15_OtherAlternativeStopsUnlessIncluded ==
    Called("match_str") =>
        \A i \in 1..Len(args.include) :
            Enumerated(args.include[i]) =>
                /\ ( /\ RegexMatch(args.include[i].rev_inner, probe.text)
                     /\ ~RegexMatch(args.include[i].inner, probe.text) )
                      => probe.out = IF AnyInclude(probe.text) THEN "Ok" ELSE "Stop"
                /\ RegexMatch(args.include[i].inner, probe.text) => probe.out = "Ok"

C15_Witness ==
    /\ Called("match_str")
    /\ probe.out = "Stop"
    /\ \E i \in 1..Len(args.include) :
          /\ Enumerated(args.include[i])
          /\ RegexMatch(args.include[i].rev_inner, probe.text)
    /\ ~AnyIn(exclusion_manager.instant_stop_regexes, probe.text)
    /\ AnyIn(exclusion_manager.list_only_regexes, probe.text)
    /\ Len(probe.text) = 3


\* C16: no GET is made for a file when the verdict on its directory or on its
\* own relative path is ListOnly; and a worker that lists a ListOnly directory
\* pushes a listing task for each subdirectory of the index.
C16_ListOnlyNeverDownloads ==
    /\ [](\A e \in DOMAIN hist.gets :
             /\ Verdict(Parent(RelOf(e))) # "ListOnly"
             /\ Verdict(RelOf(e)) # "ListOnly")
    /\ [][ \A w \in Workers :
             ( /\ pc[w] = "L_item" /\ pc'[w] # "L_item"
               /\ loc[w].excl = "ListOnly"
               /\ loc[w].items # << >>
               /\ Head(loc[w].items).type_ = "Directory" )
             => /\ deque'[w] # << >>
                /\ deque'[w][Len(deque'[w])] =
                      ListingTask(Append(loc[w].task.relative, Head(loc[w].items).name),
                                  Head(loc[w].items).url) ]_vars


FirstCall == Called("should_download_by_list") /\ ~probe.touched

\* C17: the comparator answers 'download' whenever the local path does not
\* exist or cannot be stat'ed, whatever skip_if_exists and item.skip_check are;
\* when the path exists and one of the two is set it answers 'do not download',
\* whatever the kind, the size and the mtime are.
C17_MissingDownloadsExistingSkips ==
    FirstCall =>
        /\ Metadata(fs, ProbePath).kind = "NotFound" => probe.out = "download"
        /\ ( /\ Metadata(fs, ProbePath).kind # "NotFound"
             /\ (probe.skip_if_exists \/ probe.item.skip_check) ) => probe.out = "skip"

C17_Witness ==
    /\ FirstCall
    /\ ProbePath \in DOMAIN fs /\ fs[ProbePath].kind = "symlink"
    /\ Metadata(fs, ProbePath).kind = "NotFound"
    /\ probe.skip_if_exists /\ probe.item.skip_check
    /\ probe.out = "download"

\* the local file is there with the kind and the size of the item, and only
\* the mtime can decide
MtimeDecides ==
    /\ Metadata(fs, ProbePath).kind = "file"
    /\ probe.item.type_ = "File"
    /\ Metadata(fs, ProbePath).written
          = (IF probe.item.size.kind = "None" THEN 0 ELSE probe.item.size.size)
    /\ ~probe.size_only /\ ~probe.skip_if_exists /\ ~probe.item.skip_check

\* C18: when only the mtime can decide, the comparator answers 'download' iff
\* the remote mtime (in UTC) and the local mtime differ by more than the
\* tolerance: 60 seconds with a remote timezone, 24 hours without.
C18_DownloadIffBeyondTolerance ==
    (FirstCall /\ MtimeDecides) =>
        LET remote_mtime == IF probe.timezone.some
                            THEN probe.item.mtime - probe.timezone.offset
                            ELSE probe.item.mtime
            diff == Abs(remote_mtime - Metadata(fs, ProbePath).mtime)
            tolerance == IF probe.timezone.some THEN 60 ELSE 24 * 3600
        IN  (probe.out = "download") <=> (diff > tolerance)

C19_SizeOnlySkipsDownload ==
    \A w \in Workers :
        pc[w] = "D_get" =>
            LET task == loc[w].task
                m == Metadata(fs, ExpectedPath(task))
            IN  ~( /\ AnyMatch(args.compare_size_only, ExpectedPath(task))
                   /\ m.kind = "file"
                   /\ task.item.type_ = "File"
                   /\ task.item.size.kind = "Precise"
                   /\ m.written = task.item.size.size )


MeetsBeyondMax ==
    /\ phase = "reconcile"
    /\ ~args.no_delete
    /\ del_cnt >= args.max_delete
    /\ \E p \in walked' \ walked : p \notin remote_list

\* C22 (as stated): when the reconciler meets an unobserved path after
\* max_delete paths were counted, it ends the pass, removes nothing more, and
\* the process exits with code 25.
C22_AbortExits25 ==
    /\ [][ MeetsBeyondMax => phase' = "finish" /\ fs' = fs /\ del_cnt' = del_cnt ]_vars
    /\ [][ hist.aborted => fs' = fs /\ walked' = walked ]_vars
    /\ [](hist.aborted /\ phase = "exited" => exit_code = 25)

\* C22 (amended): the same, but the exit code is 25 only if no download failed
\* in the crawl; if one did the exit code is 2.
C22_AbortExits25UnlessDownloadFailed ==
    /\ [][ MeetsBeyondMax => /\ phase' = "finish" /\ exit_code' = 25
                             /\ fs' = fs /\ del_cnt' = del_cnt ]_vars
    /\ [][ hist.aborted => fs' = fs /\ walked' = walked ]_vars
    /\ [](hist.aborted => del_cnt = args.max_delete)
    /\ [](hist.aborted /\ phase = "exited"
             => exit_code = IF failure_downloading THEN 2 ELSE 25)

C22_Witness ==
    /\ hist.aborted
    /\ phase = "exited"
    /\ exit_code = 25
    /\ args.max_delete = 1
    /\ \E p \in WalkEntries(fs) \ walked : p \notin remote_list

PushesPackage(w) == pc[w] = "D_pkg" /\ pc'[w] = "D_pkgwake"

\* C27: a download task pushes the task of a package only after it has itself
\* written its file to expected_path; none is pushed when its download failed
\* or was not attempted.
C27_ExtensionOnlyAfterWrite ==
    [][ \A w \in Workers : PushesPackage(w) =>
            /\ ExpectedPath(loc[w].task) \in hist.written
            /\ PathExists(fs, ExpectedPath(loc[w].task)) ]_vars


\* the basename is `Packages` and some ancestor directory is named `dists`
InDists(p) == Last(p) = "Packages" /\ \E k \in 1..(Len(p) - 1) : p[k] = "dists"

\* C28: asked about the file of a download task, the Debian expander answers
\* true iff the basename is `Packages` and an ancestor is named `dists`, and
\* false (never a failure) for every other path; when parsing the file fails
\* the task ends normally: no flag is set and no task is pushed.
C28_DeclinesWithoutFailing ==
    /\ [](\A w \in Workers :
            phase = "crawl" /\ pc[w] = "D_apt" /\ args.apt_packages =>
                is_apt_package(ExpectedPath(loc[w].task))
                    = IF InDists(ExpectedPath(loc[w].task)) THEN "true" ELSE "false")
    /\ [][ \A w \in Workers :
             /\ pc[w] = "D_apt" /\ pc'[w] # "D_apt"
             /\ args.apt_packages
             /\ ~parse_package(fs, ExpectedPath(loc[w].task), loc[w].task.relative,
                               loc[w].task.item.url).ok
             => /\ pc'[w] = "pop"
                /\ hist'.finished = hist.finished + 1
                /\ UNCHANGED << deque, global, wake, failure_downloading,
                                failure_listing, fs >> ]_vars


\* worker w takes the step of its listing task that follows the insert of cwd
ListingStep(w) == pc[w] = "L_get" /\ pc'[w] # "L_get"

\* C29: a listing task whose cwd is a symlink and is not the download
\* directory has cwd in remote_list, requests no listing and pushes nothing;
\* the listing of the download directory is requested also when it is a
\* symlink.
C29_SymlinkNotListed ==
    [][ \A w \in Workers : ListingStep(w) =>
          LET task == loc[w].task
          IN  /\ Cwd(task) \in remote_list
              /\ (is_symlink(fs, Cwd(task)) /\ task.relative # << >>
                    => /\ pc'[w] = "pop"
                       /\ Cwd(task) \notin hist'.listed
                       /\ UNCHANGED << fs, deque, global, wake, failure_listing >>)
              /\ (task.relative = << >> => download_dir \in hist'.listed) ]_vars

C29_Witness ==
    /\ phase = "exited"
    /\ is_symlink(fs, download_dir)
    /\ download_dir \in hist.listed
    /\ is_symlink(fs, M(<< "d" >>))
    /\ M(<< "d" >>) \in remote_list
    /\ M(<< "d" >>) \notin hist.listed
    /\ M(<< "d", "e" >>) \notin remote_list


\* worker w's listing task gets a Redirect result
GetsRedirect(w) ==
    /\ ListingStep(w)
    /\ ~(is_symlink(fs, Cwd(loc[w].task)) /\ loc[w].task.relative # << >>)
    /\ loc[w].task.url \in DOMAIN remote
    /\ remote[loc[w].task.url].kind = "Redirect"
    /\ ~remote[loc[w].task.url].flaky

\* C30: on a Redirect result the listing task changes the local tree only by
\* creating cwd as a symlink to the last but one segment of the target, and
\* only when nothing is at cwd (it does so when the parent of cwd exists);
\* whatever is at cwd stays as it is; no task is pushed and no failure flag
\* is set.
C30_RedirectSymlink ==
    [][ \A w \in Workers : GetsRedirect(w) =>
          LET cwd == Cwd(loc[w].task)
              target_url == remote[loc[w].task.url].redirect
              made == WriteNode(fs, cwd, SymlinkNode(target_url[Len(target_url) - 1]))
          IN  /\ pc'[w] = "pop"
              /\ UNCHANGED << deque, global, wake, failure_listing, failure_downloading >>
              /\ IF cwd \in DOMAIN fs THEN fs' = fs
                 ELSE IF PathExists(fs, Parent(cwd)) THEN fs' = made
                 ELSE fs' = fs ]_vars

C30_Witness ==
    /\ phase = "exited"
    /\ M(<< "r" >>) \in hist.listed
    /\ is_symlink(fs, M(<< "r" >>))
    /\ fs[M(<< "r" >>)].target = "t"
    /\ ~failure_listing /\ ~failure_downloading
    /\ M(<< "r" >>) \in remote_list


\* C31: a listing task that gets a page with a row the parser cannot read
\* sets failure_listing and ends without pushing anything; the crawl goes on.
C31_BadRowFailsListing ==
    [][ \A w \in Workers :
          /\ ListingStep(w) \/ (pc[w] = "L_get" /\ phase' # phase)
          /\ loc[w].task.url \in DOMAIN remote
          /\ remote[loc[w].task.url].row # "ok"
          => /\ failure_listing'
             /\ pc'[w] = "pop"
             /\ phase' = "crawl"
             /\ UNCHANGED << deque, global, wake, fs >> ]_vars


\* C32: a listing task whose listing is or was requested has its cwd in
\* remote_list, and a download task that is at or past the freshness check
\* (the HEAD, the GET, the write of the file) has its expected_path in
\* remote_list.
C32_ObservedBeforeWork ==
    /\ \A w \in Workers :
         /\ pc[w] \in { "L_get", "L_item", "L_wake" }
               => Cwd(loc[w].task) \in remote_list
         /\ pc[w] \in { "D_check", "D_get", "D_stream", "D_rename", "D_apt", "D_pkg",
                        "D_pkgwake" }
               => ExpectedPath(loc[w].task) \in remote_list
    /\ hist.listed \subseteq remote_list
    /\ DOMAIN hist.body \subseteq remote_list
    /\ DOMAIN hist.gets \subseteq remote_list
    /\ hist.written \subseteq remote_list

C32_Witness ==
    /\ download_dir \in hist.listed
    /\ \E w \in Workers :
         /\ pc[w] = "D_stream"
         /\ Count(hist.gets, ExpectedPath(loc[w].task)) = 1
         /\ ExpectedPath(loc[w].task) \in remote_list
         /\ args.head_before_get


\* C33: after a crawl without failure, a file of a listed directory whose own
\* relative path gets Ok has been taken up by a download task and is on disk,
\* also when the verdict on the directory is ListOnly.
C33_FileVerdictAuthoritative ==
    (CrawlOver /\ ~failure_listing /\ ~failure_downloading /\ ~args.dry_run) =>
        \A rel \in DOMAIN remote :
            (M(rel) \in hist.listed /\ remote[rel].kind = "List") =>
                \A i \in 1..Len(remote[rel].items) :
                    LET it == remote[rel].items[i]
                    IN  ( /\ it.type_ = "File"
                          /\ Verdict(rel) = "ListOnly"
                          /\ Verdict(Append(rel, it.name)) = "Ok" )
                        => /\ M(Append(rel, it.name)) \in remote_list
                           /\ PathExists(fs, M(Append(rel, it.name)))


\* C34: while the reconciler runs and after it, every worker has left its
\* loop and nothing is queued; no step of the pass changes remote_list; a
\* removal happens only in the pass.
C34_ReconcilerAfterWorkers ==
    /\ [](phase \in { "reconcile", "finish" } =>
             /\ \A w \in Workers : pc[w] = "done"
             /\ QueuesEmpty)
    /\ [][ (phase \in { "reconcile", "finish" }) => (remote_list' = remote_list) ]_vars
    /\ [][ hist.removed' # hist.removed =>
             /\ phase = "reconcile"
             /\ \A w \in Workers : pc[w] = "done" /\ pc'[w] = "done" ]_vars

C34_Witness ==
    /\ phase = "reconcile"
    /\ args.threads = 2
    /\ hist.removed # {}
    /\ hist.written # {}
    /\ \A w \in Workers : pc[w] = "done"


\* the workers that have pushed a task and not yet added its wake token
InFlight == Cardinality({ w \in Workers : pc[w] \in { "L_wake", "D_pkgwake" } })

C36_RootNeverRemoved ==
    /\ download_dir \notin hist.removed
    /\ (phase \in { "reconcile", "finish", "exited" } /\ ~hist.panicked)
           => download_dir \in DOMAIN fs


\* C37: once the crawl is over, every directory between the download
\* directory and a path of remote_list is in remote_list, and the reconciler
\* attempts no removal of a directory above a path of remote_list.
C37_AncestorsObserved ==
    (phase \in { "reconcile", "finish", "exited" } /\ ~hist.panicked) =>
        /\ \A p \in remote_list : \A k \in (Len(download_dir) + 1)..(Len(p) - 1) :
              IsPrefix(download_dir, p) => SubSeq(p, 1, k) \in remote_list
        /\ \A d \in hist.removed \cup hist.rmfailed :
              ~\E p \in remote_list : p # d /\ IsPrefix(d, p)


\* C38: under --dry-run no step of the run changes the local tree.
C38_DryRunLeavesTreeUnchanged ==
    [][ args.dry_run => fs' = fs ]_vars


\* C39: a run that exits with code 0 had no failed listing, no failed HEAD or
\* GET (every file it requested is written), no failed removal and no pass
\* ended by max_delete.
C39_ZeroMeansNoFailure ==
    (phase = "exited" /\ exit_code = 0) =>
        /\ ~failure_listing
        /\ ~failure_downloading
        /\ DOMAIN hist.gets \subseteq hist.written
        /\ hist.rmfailed = {}
        /\ ~hist.aborted
        /\ ~hist.panicked

C39_Witness ==
    /\ phase = "exited"
    /\ exit_code = 0
    /\ hist.written # {}
    /\ Cardinality(hist.removed) = 3
    /\ \E u \in DOMAIN rfiles : rfiles[u].flaky
    /\ remote[<< >>].flaky


====
